---- MODULE Spec2Model ----
(***************************************************************************)
(* Model of the two stateful components of the CozoDB connector scripts:   *)
(*   - the memory monitor   (scripts/memory-monitor.js, createMemoryMonitor)*)
(*   - the sync manager     (scripts/sync-helper.js,    createSyncManager)  *)
(* JavaScript is single-threaded: an async function runs synchronously up  *)
(* to its next `await`, where it is suspended and other calls may run.     *)
(* Every action below is one such synchronous segment of one call; where   *)
(* a segment ends at an `await` of a promise that is already settled (the   *)
(* empty push inside sync, the awaits inside one round of pull's loop) the  *)
(* segments it separates are taken as one action.                          *)
(***************************************************************************)
EXTENDS Integers, Sequences, FiniteSets, TLC

VARIABLES
    \* ---- memory monitor (memory-monitor.js:82-83) ----
    state,          \* the MemoryState record {bytesWritten, rowCount}
    lastStatus,     \* last recorded band
    mcfg,           \* the options the monitor was constructed with
    mcall,          \* the run()/trackBytes() calls in flight, by call slot
    \* ---- memory monitor, observation only ----
    mstarted,       \* number of run()/trackBytes() calls made so far
    epoch,          \* number of reset() calls so far
    fired,          \* callback invocations since the last reset(), by callback
    lastEval,       \* what the latest status classification in checkThresholds saw and did
    lastOv,         \* what the latest overflow test in checkThresholds saw and did
    lastRun         \* the run() the backend answered last, until the next call is made:
                    \* its query, its outcome, its effect

mvars == <<state, lastStatus, mcfg, mcall, mstarted, epoch, fired, lastEval, lastOv, lastRun>>

VARIABLES
    \* ---- sync manager (sync-helper.js, createSyncManager state) ----
    lastSyncTime,   \* the watermark sent as `since`
    pendingQueue,   \* sequence of {tableName, operation, record}
    isSyncing,      \* the single-flight flag
    scfg,           \* the configuration the manager was constructed with
    scall,          \* the sync()/push()/pull() calls in flight, by call slot
    \* ---- the manager's collaborators ----
    localDb,        \* the local store: table -> id -> row
    now,            \* the wall clock, Date.now() / 1000
    \* ---- sync manager, observation only ----
    nextSyncId,     \* number of sync ids generated so far, plus one
    acked,          \* sync ids of the records sent in a POST the server answered 2xx
    serverStore,    \* the records the server accepted
    beacon,         \* the data last handed to navigator.sendBeacon, and for which table
    ev              \* what the latest step did that is visible from outside

svars == <<lastSyncTime, pendingQueue, isSyncing, scfg, scall, localDb, now, nextSyncId, acked,
           serverStore, beacon, ev>>

VARIABLES
    \* ---- the page and the server around the sync manager ----
    serverClock,    \* the server's clock, which it reports as serverTime
    auto            \* what setupAutoSync() has installed: the interval timer and the listeners

xvars == <<serverClock, auto>>

vars == <<mvars, svars, xvars>>

----------------------------------------------------------------------------
(* Bounds of the exploration *)

\* run()/trackBytes() calls made in one behaviour
MaxWrites == 2
\* reset() calls made in one behaviour
MaxResets == 1
\* calls that may be in flight (suspended at an await) at the same time
MaxMonCalls == 2

----------------------------------------------------------------------------
(* Memory monitor: options and pure functions *)

\* options.maxBytes as configured in the explored monitor
maxBytes == 100
\* DEFAULT_OPTIONS.warningThreshold = 0.8 and criticalThreshold = 0.95, in percent
warningThreshold == 80
criticalThreshold == 95
\* DEFAULT_OPTIONS.estimateMultiplier = 2.5 = 5/2
MultiplierNum == 5
MultiplierDen == 2

Min(a, b) == IF a < b THEN a ELSE b
Max(a, b) == IF a > b THEN a ELSE b

\* ceil(n / d) for n >= 0, d > 0
CeilDiv(n, d) == (n + d - 1) \div d

\* a variant of line 43 that rounds down
estimateDataSizeFloor(jsonSize, mNum, mDen) == (jsonSize * mNum) \div mDen

\* estimateDataSize(data, multiplier), lines 41-44: jsonSize is
\* JSON.stringify(data).length, the multiplier is the fraction mNum / mDen
estimateDataSizeOf(jsonSize, mNum, mDen) == CeilDiv(jsonSize * mNum, mDen)

\* estimateDataSize(data), with the default multiplier
estimateDataSize(jsonSize) == estimateDataSizeOf(jsonSize, MultiplierNum, MultiplierDen)

\* createMemoryState(bytesWritten, rowCount)
createMemoryState(bytesWritten, rowCount) ==
    [bytesWritten |-> bytesWritten, rowCount |-> rowCount]

\* a variant of lines 49-50 without the Math.min
calculateUsagePercentUnclamped(bytesWritten, max) == <<bytesWritten, max>>

\* calculateUsagePercent: Math.min(bytesWritten / maxBytes, 1.0), as the exact
\* fraction <<numerator, denominator>>
calculateUsagePercent(bytesWritten, max) ==
    IF bytesWritten >= max THEN <<1, 1>> ELSE <<bytesWritten, max>>

\* u >= pct/100 for a fraction u
AtLeastPct(u, pct) == u[1] * 100 >= pct * u[2]

\* u > pct/100 for a fraction u
AbovePct(u, pct) == u[1] * 100 > pct * u[2]

\* a variant of lines 56-57 that compares with > instead of >=
getMemoryStatusAbove(usagePercent, options) ==
    IF AbovePct(usagePercent, options.criticalThreshold) THEN "critical"
    ELSE IF AbovePct(usagePercent, options.warningThreshold) THEN "warning"
    ELSE "ok"

\* getMemoryStatus(usagePercent, options), lines 55-59; the thresholds of
\* `options` are in percent
getMemoryStatus(usagePercent, options) ==
    IF AtLeastPct(usagePercent, options.criticalThreshold) THEN "critical"
    ELSE IF AtLeastPct(usagePercent, options.warningThreshold) THEN "warning"
    ELSE "ok"

\* line 78: the thresholds of the monitor's config
config == [warningThreshold |-> warningThreshold, criticalThreshold |-> criticalThreshold]

StatusOf(bytesWritten) ==
    getMemoryStatus(calculateUsagePercent(bytesWritten, maxBytes), config)

\* getStats(): a fresh snapshot computed from the live state
getStats ==
    [bytesWritten |-> state.bytesWritten,
     rowCount     |-> state.rowCount,
     maxBytes     |-> maxBytes,
     usagePercent |-> calculateUsagePercent(state.bytesWritten, maxBytes),
     status       |-> StatusOf(state.bytesWritten)]

----------------------------------------------------------------------------
(* Memory monitor: inputs *)

\* a query, by what run() looks at: whether its text contains ':put' or
\* ':create', and the length of its JSON serialisation; and by what it is:
\* `mutation` tells whether it creates a relation or writes data.
\*   put, create   the two operations run() looks for
\*   read          a plain read
\*   replace       a write by another CozoScript operation (:replace, :insert,
\*                 :update, :ensure, :rm)
\*   quoted        a read whose text contains ':put' inside a string literal
Query(text, includesPut, includesCreate, mutation) ==
    [text |-> text, includesPut |-> includesPut, includesCreate |-> includesCreate,
     mutation |-> mutation, jsonSize |-> 8]

Queries ==
    { Query("put",     TRUE,  FALSE, TRUE),
      Query("create",  FALSE, TRUE,  TRUE),
      Query("read",    FALSE, FALSE, FALSE),
      Query("replace", FALSE, FALSE, TRUE),
      Query("quoted",  TRUE,  FALSE, FALSE) }

\* a value of the right shape for "no query"
NoQuery == Query("none", FALSE, FALSE, FALSE)

\* line 128: query.includes(':put') || query.includes(':create')
IsMutation(q) == q.includesPut \/ q.includesCreate

\* the query denotes a mutating operation (schema creation or data write)
DenotesMutation(q) == q.mutation

\* JSON.stringify(params).length; "{}" has length 2
ParamSizes == {2}

\* what db.run() answers: a result without rows, a result with rows of some
\* length, an error result {ok: false, message} (the form in which the
\* backends report a failed query), or a thrown error (a rejected promise, or
\* a throw of the synchronous WASM form)
DbResults == { [thrown |-> FALSE, ok |-> TRUE,  rows |-> -1],
               [thrown |-> FALSE, ok |-> TRUE,  rows |-> 2],
               [thrown |-> FALSE, ok |-> FALSE, rows |-> -1],
               [thrown |-> TRUE,  ok |-> FALSE, rows |-> -1] }

\* how a run() call ends for its caller once the backend has answered
Outcome(result) ==
    IF result.thrown THEN "threw" ELSE IF result.ok THEN "returned" ELSE "returnedError"

\* result.rows?.length || 1
RowsAdded(r) == IF r.rows <= 0 THEN 1 ELSE r.rows

\* the byte counts handed to trackBytes()
TrackInputs == {0, 10, 50, 80, 120}

\* the sets of callbacks a monitor may be configured with
CallbackSets == { {"onWarning", "onCritical", "onOverflow"}, {"onOverflow"} }

MonSlots == 1..MaxMonCalls

\* a call slot: where the call is suspended and the locals it resumes with
IdleCall == [pc |-> "idle", query |-> NoQuery, writeSize |-> 0, currentStatus |-> "ok",
             afterBytes |-> 0]

\* a new call takes the first free slot
FreeSlot(p) == mcall[p].pc = "idle" /\ \A q \in MonSlots : q < p => mcall[q].pc # "idle"

----------------------------------------------------------------------------
(* Memory monitor: checkThresholds *)

\* lines 93-98: the state-change callback checkThresholds awaits, if any
\* a variant of lines 93-98 that fires on every write that ends in a band
StateCallbackLevel(currentStatus, last, cbs) ==
    IF currentStatus = "warning" /\ "onWarning" \in cbs THEN "onWarning"
    ELSE IF currentStatus = "critical" /\ "onCritical" \in cbs THEN "onCritical"
    ELSE "none"

StateCallback(currentStatus, last, cbs) ==
    IF currentStatus # last /\ currentStatus = "warning" /\ "onWarning" \in cbs
        THEN "onWarning"
    ELSE IF currentStatus # last /\ currentStatus = "critical" /\ "onCritical" \in cbs
        THEN "onCritical"
    ELSE "none"

\* a variant of the test of line 103 that also fires at bytesWritten == maxBytes
FiresOverflowAtLimit(bytesWritten, cbs) == bytesWritten >= maxBytes /\ "onOverflow" \in cbs

\* line 103: state.bytesWritten > maxBytes && onOverflow
FiresOverflow(bytesWritten, cbs) == bytesWritten > maxBytes /\ "onOverflow" \in cbs

Bump(f, cb) == IF cb = "none" THEN f ELSE [f EXCEPT ![cb] = @ + 1]

\* lines 102-107, the last segment of checkThresholds: the overflow test, on
\* the bytesWritten the call reads at that moment (state' of the step)
OverflowTest(p, afterBytes, viaAwait) ==
    LET ov == FiresOverflow(state'.bytesWritten, mcfg.callbacks) IN
    /\ lastOv' = [tested |-> TRUE, afterBytes |-> afterBytes,
                  checkBytes |-> state'.bytesWritten, fired |-> ov, viaAwait |-> viaAwait]
    /\ fired' = IF ov THEN Bump(fired, "onOverflow") ELSE fired
    /\ mcall' = [mcall EXCEPT ![p] =
                    IF ov THEN [IdleCall EXCEPT !.pc = "awaitOverflowCb"] ELSE IdleCall]

\* lines 88-108 up to the first await, run right after the counters were
\* replaced (state' is the new MemoryState)
checkThresholds(p) ==
    LET currentStatus == StatusOf(state'.bytesWritten)
        cb == StateCallback(currentStatus, lastStatus, mcfg.callbacks)
    IN
    /\ lastEval' = [currentStatus |-> currentStatus, callback |-> cb,
                    firedBefore |-> fired, epoch |-> epoch]
    /\ IF cb # "none"
       THEN \* await onWarning(getStats()) / await onCritical(getStats())
            /\ fired' = Bump(fired, cb)
            /\ mcall' = [mcall EXCEPT ![p] =
                            [IdleCall EXCEPT !.pc = "awaitStateCb",
                                             !.currentStatus = currentStatus,
                                             !.afterBytes = state'.bytesWritten]]
            /\ UNCHANGED <<lastStatus, lastOv>>
       ELSE /\ lastStatus' = currentStatus
            /\ OverflowTest(p, state'.bytesWritten, FALSE)

\* a variant of lines 164-167 that installs the count instead of adding it
trackBytesStateSet(st, bytes) ==
    createMemoryState(bytes, st.rowCount)

\* lines 164-167: the MemoryState trackBytes(bytes) installs
trackBytesState(st, bytes) ==
    createMemoryState(st.bytesWritten + bytes, st.rowCount)

\* lines 129-133: the MemoryState a tracked run() installs
runState(st, writeSize, result) ==
    createMemoryState(st.bytesWritten + writeSize, st.rowCount + RowsAdded(result))

----------------------------------------------------------------------------
(* Memory monitor: operations *)

\* no run() to look at
NoRun == [query |-> NoQuery, outcome |-> "none", added |-> 0, rows |-> 0, touched |-> FALSE]

\* createMemoryMonitor(db, options), lines 77-83
MonConstructed(cfgs) ==
    /\ state = createMemoryState(0, 0)
    /\ lastStatus = "ok"
    /\ mcfg \in cfgs
    /\ mcall = [p \in MonSlots |-> IdleCall]
    /\ mstarted = 0
    /\ epoch = 0
    /\ fired = [cb \in {"onWarning", "onCritical", "onOverflow"} |-> 0]
    /\ lastEval = [currentStatus |-> "none", callback |-> "none",
                   firedBefore |-> fired, epoch |-> 0]
    /\ lastOv = [tested |-> FALSE, afterBytes |-> 0, checkBytes |-> 0, fired |-> FALSE,
                 viaAwait |-> FALSE]
    /\ lastRun = NoRun

\* trackBytes(bytes), lines 163-169, up to its first await
TrackBytes(p, bytes) ==
    /\ FreeSlot(p)
    /\ mstarted < MaxWrites
    /\ mstarted' = mstarted + 1
    /\ state' = trackBytesState(state, bytes)
    /\ checkThresholds(p)
    /\ lastRun' = NoRun
    /\ UNCHANGED <<mcfg, epoch, svars, xvars>>

\* run(), lines 127-137: what follows the backend's answer `result` to the
\* query q
AfterDb(p, q, writeSize, result) ==
    /\ IF ~result.thrown /\ IsMutation(q)
       THEN /\ state' = runState(state, writeSize, result)
            /\ checkThresholds(p)
       ELSE \* the backend's error propagates, or line 128 is false: nothing is
            \* counted
            /\ mcall' = [mcall EXCEPT ![p] = IdleCall]
            /\ UNCHANGED <<state, lastStatus, fired, lastEval, lastOv>>
    /\ lastRun' = [query |-> q, outcome |-> Outcome(result),
                   added |-> state'.bytesWritten - state.bytesWritten,
                   rows |-> state'.rowCount - state.rowCount,
                   touched |-> state' # state \/ lastStatus' # lastStatus \/ fired' # fired]

\* lines 115-116 and 128-129: querySize + paramsSize for a mutation, 0 (not
\* tracked) for any other query
WriteSize(q, paramSize) ==
    IF IsMutation(q) THEN estimateDataSize(q.jsonSize) + estimateDataSize(paramSize) ELSE 0

\* run(query, params) on a WASM backend (lines 120-122): db.run is synchronous
RunWasm(p, q, paramSize) ==
    /\ mcfg.isWasm
    /\ FreeSlot(p)
    /\ mstarted < MaxWrites
    /\ mstarted' = mstarted + 1
    /\ \E result \in DbResults : AfterDb(p, q, WriteSize(q, paramSize), result)
    /\ UNCHANGED <<mcfg, epoch, svars, xvars>>

\* run(query, params) on an asynchronous backend (line 124): suspended at
\* `await db.run(query, params)`
RunAsync(p, q, paramSize) ==
    /\ ~mcfg.isWasm
    /\ FreeSlot(p)
    /\ mstarted < MaxWrites
    /\ mstarted' = mstarted + 1
    /\ mcall' = [mcall EXCEPT ![p] =
                    [IdleCall EXCEPT !.pc = "awaitDb", !.query = q,
                                     !.writeSize = WriteSize(q, paramSize)]]
    /\ lastRun' = NoRun
    /\ UNCHANGED <<state, lastStatus, mcfg, epoch, fired, lastEval, lastOv, svars, xvars>>

\* the backend answers the suspended run()
DbSettle(p) ==
    /\ mcall[p].pc = "awaitDb"
    /\ \E result \in DbResults : AfterDb(p, mcall[p].query, mcall[p].writeSize, result)
    /\ UNCHANGED <<mcfg, mstarted, epoch, svars, xvars>>

\* lines 99-107: the awaited onWarning/onCritical has settled
ResumeStateCb(p) ==
    /\ mcall[p].pc = "awaitStateCb"
    /\ state' = state
    /\ lastStatus' = mcall[p].currentStatus
    /\ OverflowTest(p, mcall[p].afterBytes, TRUE)
    /\ UNCHANGED <<mcfg, mstarted, epoch, lastEval, lastRun, svars, xvars>>

\* a variant in which line 98 is reached although the awaited onWarning or
\* onCritical threw
CallbackThrowsAdvances(p) ==
    /\ mcall[p].pc \in {"awaitStateCb", "awaitOverflowCb"}
    /\ mcall' = [mcall EXCEPT ![p] = IdleCall]
    /\ lastStatus' = IF mcall[p].pc = "awaitStateCb" THEN mcall[p].currentStatus ELSE lastStatus
    /\ UNCHANGED <<state, mcfg, mstarted, epoch, fired, lastEval, lastOv, lastRun, svars, xvars>>

\* the awaited callback threw (or the promise it returned rejected): the
\* error propagates and the call is aborted where it was suspended
CallbackThrows(p) ==
    /\ mcall[p].pc \in {"awaitStateCb", "awaitOverflowCb"}
    /\ mcall' = [mcall EXCEPT ![p] = IdleCall]
    /\ UNCHANGED <<state, lastStatus, mcfg, mstarted, epoch, fired, lastEval, lastOv, lastRun,
                   svars, xvars>>

\* line 107: the awaited onOverflow has settled
ResumeOverflowCb(p) ==
    /\ mcall[p].pc = "awaitOverflowCb"
    /\ mcall' = [mcall EXCEPT ![p] = IdleCall]
    /\ UNCHANGED <<state, lastStatus, mcfg, mstarted, epoch, fired, lastEval, lastOv, lastRun,
                   svars, xvars>>

\* reset(), lines 155-158; it is synchronous and may run whenever no other
\* segment runs: between calls, from inside a callback, or while a call is
\* suspended
Reset ==
    /\ epoch < MaxResets
    /\ epoch' = epoch + 1
    /\ state' = createMemoryState(0, 0)
    /\ lastStatus' = "ok"
    /\ fired' = [cb \in DOMAIN fired |-> 0]
    /\ lastRun' = NoRun
    /\ UNCHANGED <<mcfg, mcall, mstarted, lastEval, lastOv, svars, xvars>>

----------------------------------------------------------------------------
(* Sync manager: bounds and inputs *)

\* queueChange() calls made in one behaviour
MaxQueued == 2
\* sync()/push()/pull() calls that get past their first line in one behaviour
\* (all of them may be in flight at the same time)
MaxSyncCalls == 2
\* records in one pull response
MaxItems == 2
\* the clock runs from 1 to MaxTime
MaxTime == 2
\* the server's clock runs from 5 to MaxServerTime
MaxServerTime == 6

Tables == {"notes", "tasks"}
\* config.clientId
clientId == "c1"

\* JavaScript's undefined, for a string, a number and the data field
UndefStr == "undefined"
UndefNum == 0 - 1
UndefData == [kind |-> "undefined", title |-> UndefStr]

\* a JavaScript record with the fields the manager handles; a field the
\* object does not have is undefined.  `data` is a string: the JSON text of a
\* payload object {title} (kind "json"), or some other text (kind "raw").
JsRecord(id, data, cid, updatedAt, syncId, title) ==
    [id |-> id, data |-> data, clientId |-> cid, updatedAt |-> updatedAt,
     syncId |-> syncId, title |-> title]

\* JSON.stringify of the payload object {title}
JsonStringify(title) == [kind |-> "json", title |-> title]

\* what getLocalRecord builds from a row of `fields` = [id, title, updatedAt]
Row(id, title, updatedAt) == JsRecord(id, UndefData, UndefStr, updatedAt, UndefNum, title)

\* getLocalRecord's null
NoRow == Row(UndefNum, UndefStr, UndefNum)

\* the data handed to queueChange(): payload objects
DataInputs == { [isString |-> FALSE, str |-> UndefData, title |-> "T"] }

\* the data handed to queueChange() in a round trip: a payload object, its
\* JSON text, and a string that is not JSON text
RoundTripData ==
    DataInputs \cup { [isString |-> TRUE, str |-> JsonStringify("T"), title |-> UndefStr],
                      [isString |-> TRUE, str |-> [kind |-> "raw", title |-> UndefStr],
                       title |-> UndefStr] }

\* the rows the local store may hold for notes/1 when the manager is constructed
LocalInits == { NoRow, Row(1, "L", 2) }

\* the records a pull response may carry: the server holds records of table
\* notes only, written by another replica at updatedAt 1 or 2
RemoteTimes == {1, 2}
RemoteItems(t) ==
    IF t = "notes"
    THEN { JsRecord(1, JsonStringify("R"), "c2", u, 100 + u, UndefStr) : u \in RemoteTimes }
    ELSE {}

\* serverTime of a pull response; 0 stands for a response without it
ServerTimes == {0, 5}

Strategies == {"server", "local", "merge"}

SyncSlots == 1..MaxSyncCalls

RECURSIVE SeqsUpTo(_, _)
\* the sequences over S of length at most n
SeqsUpTo(S, n) ==
    IF n = 0 THEN { <<>> }
    ELSE LET shorter == SeqsUpTo(S, n - 1) IN
         shorter \cup { Append(q, x) : q \in { r \in shorter : Len(r) = n - 1 }, x \in S }

----------------------------------------------------------------------------
(* Sync manager: pure functions *)

\* createSyncRecord(id, data, clientId), lines 318-324, at clock `time` and
\* with `sid` the id generateSyncId() returns
createSyncRecord(id, data, cid, time, sid) ==
    JsRecord(id, IF data.isString THEN data.str ELSE JsonStringify(data.title),
             cid, time, sid, UndefStr)

\* a variant of lines 329-330 in which a tie favours the local record
isLocalNewerOrSame(localRecord, serverRecord) ==
    localRecord.updatedAt >= serverRecord.updatedAt

\* isLocalNewer, lines 329-330
isLocalNewer(localRecord, serverRecord) ==
    localRecord.updatedAt > serverRecord.updatedAt

\* v != null
Present(v) == v # UndefStr /\ v # "null"

\* a variant of lines 335-353 whose merge takes every field but updatedAt from
\* the server's record
resolveConflictServerFields(local, server, strategy) ==
    IF strategy = "local" THEN local
    ELSE IF strategy = "merge"
        THEN [server EXCEPT !.updatedAt = Max(local.updatedAt, server.updatedAt)]
    ELSE server

\* resolveConflict, lines 335-353
resolveConflict(local, server, strategy) ==
    CASE strategy = "local" -> local
      [] strategy = "server" -> server
      [] strategy = "merge" ->
            [id        |-> IF local.id # UndefNum THEN local.id ELSE server.id,
             data      |-> IF local.data.kind # "undefined" THEN local.data ELSE server.data,
             clientId  |-> IF Present(local.clientId) THEN local.clientId ELSE server.clientId,
             syncId    |-> IF local.syncId # UndefNum THEN local.syncId ELSE server.syncId,
             title     |-> IF Present(local.title) THEN local.title ELSE server.title,
             updatedAt |-> Max(local.updatedAt, server.updatedAt)]
      [] OTHER -> server

\* a variant of line 407 that takes the entries of every table
pendingForAnyTable(queue, tableName) == queue

\* line 407: pendingQueue.filter(p => p.tableName === tableName)
pendingForTable(queue, tableName) ==
    SelectSeq(queue, LAMBDA p : p.tableName = tableName)

\* a variant of line 418 that stamps the records with the clock when they
\* are sent
RecordsOfRestamped(entries) ==
    [i \in 1..Len(entries) |-> [entries[i].record EXCEPT !.updatedAt = now]]

\* line 418: pendingForTable.map(p => p.record)
RecordsOf(entries) == [i \in 1..Len(entries) |-> entries[i].record]

\* a variant of line 429 that empties the queue
clearPushedAll(queue, tableName) == <<>>

\* line 429: pendingQueue.filter(p => p.tableName !== tableName)
clearPushed(queue, tableName) ==
    SelectSeq(queue, LAMBDA p : p.tableName # tableName)

\* a variant of lines 432-435 that drops the table's entries when a push fails
queueAfterFailedPushCleared(queue, tableName) == clearPushed(queue, tableName)

\* lines 432-435: the catch block of push leaves the queue as it is
queueAfterFailedPush(queue, tableName) == queue

\* a variant of line 520 that never rejects a sync() call
alreadySyncingNever(flag) == FALSE

\* line 520: if (isSyncing)
alreadySyncing(flag) == flag

\* a variant of line 463 that goes on to resolve and apply whatever the hook
\* returned
hookSkipsNever(resolution) == FALSE

\* line 463: if (resolution === 'skip') continue;
hookSkips(resolution) == resolution = "skip"

\* a variant of lines 483-495 that answers with the stored row although the
\* query failed
getLocalRecordDespiteFailure(db, tableName, id, queryFails) == db[tableName][id]

\* getLocalRecord, lines 483-495; a failed query is swallowed and gives null
getLocalRecord(db, tableName, id, queryFails) ==
    IF queryFails THEN NoRow ELSE db[tableName][id]

\* applyToLocal, lines 500-511, for fields [id, title, updatedAt]: the row it
\* builds, or the error it throws before reaching localDb.mutate
applyToLocal(record) ==
    IF record.data.kind = "undefined"
        THEN [ok |-> FALSE, error |-> "TypeError", row |-> NoRow]   \* data[f] of undefined
    ELSE IF record.data.kind = "raw"
        THEN [ok |-> FALSE, error |-> "SyntaxError", row |-> NoRow] \* JSON.parse(record.data)
    ELSE [ok |-> TRUE, error |-> "none",
          \* data[f] ?? record[f]
          row |-> Row(record.id,
                      IF Present(record.data.title) THEN record.data.title ELSE record.title,
                      record.updatedAt)]

\* a variant of lines 548-553 that answers with the status computed when the
\* manager was constructed
getStatusCached ==
    [clientId |-> clientId, lastSyncTime |-> 0, pendingCount |-> 0, isSyncing |-> FALSE]

\* getStatus(), lines 548-553
getStatus ==
    [clientId |-> clientId, lastSyncTime |-> lastSyncTime,
     pendingCount |-> Len(pendingQueue), isSyncing |-> isSyncing]

----------------------------------------------------------------------------
(* Sync manager: calls and events *)

\* a call slot; dbAtCall is observation only: the local store as it was when
\* the pull of the call began
IdleSync == [op |-> "none", pc |-> "idle", table |-> "none", batch |-> <<>>,
             items |-> <<>>, applied |-> 0, serverTime |-> 0, dbAtCall |-> <<>>]

\* a call that has settled
DoneSync == [IdleSync EXCEPT !.pc = "done"]

\* calls take the call slots in order
FreeSyncSlot(c) == scall[c].pc = "idle" /\ \A d \in SyncSlots : d < c => scall[d].pc # "idle"

InFlight(c) == scall[c].pc \notin {"idle", "done"}

\* what one processed pull item did
NoApply == [done |-> FALSE, table |-> "none", dbAtCall |-> <<>>,
            conflict |-> FALSE, hook |-> "none", local |-> NoRow,
            item |-> NoRow, resolved |-> NoRow, outcome |-> "none", row |-> NoRow]

\* the event of a step: the call it belongs to and its phase, the hooks it
\* invoked, the request it sent, the result it returned to the caller
Ev(op, phase, result, hooks, req, count, apply) ==
    [op |-> op, phase |-> phase, result |-> result, hooks |-> hooks, req |-> req,
     count |-> count, apply |-> apply]

\* no beacon was sent
NoBeacon == [table |-> "none", clientId |-> UndefStr, items |-> <<>>]

\* setupAutoSync() has not been called
NoAutoSync == [table |-> "none", interval |-> FALSE, blur |-> FALSE, unload |-> FALSE,
               cleaned |-> FALSE]

\* createSyncManager(localDb, config), lines 366-380
SyncConstructed(strategies, locals) ==
    /\ lastSyncTime = 0
    /\ pendingQueue = <<>>
    /\ isSyncing = FALSE
    /\ scfg \in [conflictStrategy : strategies]
    /\ scall = [c \in SyncSlots |-> IdleSync]
    /\ \E l \in locals :
         localDb = [t \in Tables |-> [i \in {1} |-> IF t = "notes" THEN l ELSE NoRow]]
    /\ now = 1
    /\ nextSyncId = 1
    /\ acked = {}
    /\ serverStore = {}
    /\ beacon = NoBeacon
    /\ ev = Ev("none", "none", "none", {}, "none", 0, NoApply)
    /\ serverClock = 5
    /\ auto = NoAutoSync

\* the call in slot c ends: its promise resolves or rejects; a sync() call
\* passes its finally block (line 541)
Settles(c, op, phase, result, hooks, count, apply) ==
    /\ scall' = [scall EXCEPT ![c] = DoneSync]
    /\ isSyncing' = IF op = "sync" THEN FALSE ELSE isSyncing
    /\ ev' = Ev(op, phase, result, hooks, "none", count, apply)

\* pull, lines 441-445: the GET is sent and the call is suspended
PullBegin(c, op, t, hooks) ==
    /\ scall' = [scall EXCEPT ![c] = [IdleSync EXCEPT !.op = op, !.pc = "pullFetch", !.table = t,
                                                     !.dbAtCall = localDb]]
    /\ ev' = Ev(op, "pull", "none", hooks, "GET", lastSyncTime', NoApply)

\* a variant of lines 404-420 without the early return of lines 408-410: the
\* POST is sent even when the batch is empty
PushBeginAlways(c, op, t, hooks) ==
    LET batch == pendingForTable(pendingQueue, t) IN
    /\ scall' = [scall EXCEPT ![c] =
                    [IdleSync EXCEPT !.op = op, !.pc = "pushFetch", !.table = t,
                                     !.batch = RecordsOf(batch)]]
    /\ ev' = Ev(op, "push", "none", hooks, "POST", Len(batch), NoApply)

\* push, lines 404-420, up to its first await
PushBegin(c, op, t, hooks) ==
    LET batch == pendingForTable(pendingQueue, t) IN
    IF Len(batch) = 0
    THEN IF op = "push"
         THEN \* return { pushed: 0 }
              /\ ev' = Ev(op, "push", "resolved", hooks, "none", 0, NoApply)
              /\ UNCHANGED scall
         ELSE \* sync() goes on to pull (lines 529-530)
              PullBegin(c, op, t, hooks)
    ELSE /\ scall' = [scall EXCEPT ![c] =
                        [IdleSync EXCEPT !.op = op, !.pc = "pushFetch", !.table = t,
                                         !.batch = RecordsOf(batch)]]
         /\ ev' = Ev(op, "push", "none", hooks, "POST", Len(batch), NoApply)

----------------------------------------------------------------------------
(* Sync manager: operations *)

\* a variant of lines 395-399 in which a change replaces the queued entry of
\* the same table and id
QueueChangeReplaces(t, id, data) ==
    /\ nextSyncId <= MaxQueued
    /\ nextSyncId' = nextSyncId + 1
    /\ pendingQueue' = Append(SelectSeq(pendingQueue,
                                        LAMBDA p : ~(p.tableName = t /\ p.record.id = id)),
            [tableName |-> t, operation |-> "put",
             record |-> createSyncRecord(id, data, clientId, now, nextSyncId)])
    /\ ev' = Ev("queueChange", "none", "resolved", {}, "none", nextSyncId, NoApply)
    /\ UNCHANGED <<lastSyncTime, isSyncing, scfg, scall, localDb, now, acked, serverStore,
                   beacon, mvars, xvars>>

\* queueChange(tableName, id, data), lines 395-399
QueueChange(t, id, data) ==
    /\ nextSyncId <= MaxQueued
    /\ nextSyncId' = nextSyncId + 1
    /\ pendingQueue' = Append(pendingQueue,
            [tableName |-> t, operation |-> "put",
             record |-> createSyncRecord(id, data, clientId, now, nextSyncId)])
    /\ ev' = Ev("queueChange", "none", "resolved", {}, "none", nextSyncId, NoApply)
    /\ UNCHANGED <<lastSyncTime, isSyncing, scfg, scall, localDb, now, acked, serverStore, beacon, mvars, xvars>>

\* time passes
Tick ==
    /\ now < MaxTime
    /\ now' = now + 1
    /\ ev' = Ev("tick", "none", "none", {}, "none", 0, NoApply)
    /\ UNCHANGED <<lastSyncTime, pendingQueue, isSyncing, scfg, scall, localDb, nextSyncId, acked, serverStore, beacon, mvars, xvars>>

\* a variant of lines 520-523 whose guard is kept per table: the call is
\* rejected only when a cycle for the same table is in progress
SyncSkippedPerTable(t) ==
    /\ \E c \in SyncSlots : scall[c].op = "sync" /\ InFlight(c) /\ scall[c].table = t
    /\ ev' = Ev("sync", "none", "skipped", {}, "none", 0, [NoApply EXCEPT !.table = t])
    /\ UNCHANGED <<lastSyncTime, pendingQueue, isSyncing, scfg, scall, localDb, now,
                   nextSyncId, acked, serverStore, beacon, mvars, xvars>>

\* sync(tableName, fields) called while a cycle is in progress, lines 520-523
SyncSkipped(t) ==
    /\ alreadySyncing(isSyncing)
    /\ ev' = Ev("sync", "none", "skipped", {}, "none", 0, [NoApply EXCEPT !.table = t])
    /\ UNCHANGED <<lastSyncTime, pendingQueue, isSyncing, scfg, scall, localDb, now,
                   nextSyncId, acked, serverStore, beacon, mvars, xvars>>

\* sync(tableName, fields), lines 525-526, when onSyncStart throws: the
\* error leaves sync() before the try block is entered
SyncStartThrows(t) ==
    /\ ~alreadySyncing(isSyncing)
    /\ isSyncing' = TRUE
    /\ ev' = Ev("sync", "start", "rejected", {"onSyncStart"}, "none", 0, NoApply)
    /\ UNCHANGED <<lastSyncTime, pendingQueue, scfg, scall, localDb, now, nextSyncId, acked, serverStore, beacon, mvars, xvars>>

\* sync(tableName, fields), lines 519-529, up to the first await of push
SyncCall(c, t) ==
    /\ FreeSyncSlot(c)
    /\ ~alreadySyncing(isSyncing)
    /\ isSyncing' = TRUE
    /\ lastSyncTime' = lastSyncTime
    /\ PushBegin(c, "sync", t, {"onSyncStart"})
    /\ UNCHANGED <<pendingQueue, scfg, localDb, now, nextSyncId, acked, serverStore, beacon, mvars, xvars>>

\* push(tableName) called directly
PushCall(c, t) ==
    /\ FreeSyncSlot(c)
    /\ lastSyncTime' = lastSyncTime
    /\ PushBegin(c, "push", t, {})
    /\ UNCHANGED <<pendingQueue, isSyncing, scfg, localDb, now, nextSyncId, acked, serverStore, beacon, mvars, xvars>>

\* push, lines 422-431: the server answered 2xx; within sync(), pull follows
PushOk(c) ==
    /\ scall[c].pc = "pushFetch"
    /\ acked' = acked \cup { scall[c].batch[i].syncId : i \in 1..Len(scall[c].batch) }
    /\ serverStore' = serverStore \cup { scall[c].batch[i] : i \in 1..Len(scall[c].batch) }
    /\ pendingQueue' = clearPushed(pendingQueue, scall[c].table)
    /\ lastSyncTime' = lastSyncTime
    /\ IF scall[c].op = "push"
       THEN /\ Settles(c, "push", "push", "resolved", {}, Len(scall[c].batch), NoApply)
          ELSE /\ PullBegin(c, "sync", scall[c].table, {})
            /\ UNCHANGED isSyncing
    /\ UNCHANGED <<scfg, localDb, now, nextSyncId, beacon, mvars, xvars>>

\* a variant of lines 432-435 and 528-530 in which sync() swallows the error
\* of a failed push and goes on to pull
PushFailSwallowed(c) ==
    /\ scall[c].pc = "pushFetch"
    /\ pendingQueue' = pendingQueue
    /\ lastSyncTime' = lastSyncTime
    /\ IF scall[c].op = "push"
       THEN Settles(c, "push", "push", "rejected", {"onSyncError"}, 0, NoApply)
       ELSE /\ PullBegin(c, "sync", scall[c].table, {"onSyncError"})
            /\ UNCHANGED isSyncing
    /\ UNCHANGED <<scfg, localDb, now, nextSyncId, acked, serverStore, beacon, mvars, xvars>>

\* push, lines 422-424 and 432-435: the request failed or the answer was not
\* 2xx; onSyncError is invoked and the error is thrown again
PushFail(c) ==
    /\ scall[c].pc = "pushFetch"
    /\ pendingQueue' = queueAfterFailedPush(pendingQueue, scall[c].table)
    /\ Settles(c, scall[c].op, "push", "rejected", {"onSyncError"}, 0, NoApply)
    /\ UNCHANGED <<lastSyncTime, scfg, localDb, now, nextSyncId, acked, serverStore, beacon, mvars, xvars>>

\* pull(tableName, fields) called directly
PullCall(c, t) ==
    /\ FreeSyncSlot(c)
    /\ lastSyncTime' = lastSyncTime
    /\ PullBegin(c, "pull", t, {})
    /\ UNCHANGED <<pendingQueue, isSyncing, scfg, localDb, now, nextSyncId, acked, serverStore, beacon, mvars, xvars>>

\* push(tableName) called when the caller has awaited every earlier call
PushAwaited(c, t) ==
    /\ \A d \in SyncSlots : ~InFlight(d)
    /\ PushCall(c, t)

\* pull(tableName, fields) called when the caller has awaited every earlier call
PullAwaited(c, t) ==
    /\ \A d \in SyncSlots : ~InFlight(d)
    /\ PullCall(c, t)

\* a variant of lines 474-477 in which a failed pull moves the watermark to
\* the local clock
PullFailAdvances(c) ==
    /\ scall[c].pc = "pullFetch"
    /\ lastSyncTime' = now
    /\ Settles(c, scall[c].op, "pull", "rejected", {"onSyncError"}, 0, NoApply)
    /\ UNCHANGED <<pendingQueue, scfg, localDb, now, nextSyncId, acked, serverStore, beacon, mvars, xvars>>

\* a variant of lines 474-477 and 539 in which the cycle of a failed pull is
\* reported as complete as well
PullFailCompletes(c) ==
    /\ scall[c].pc = "pullFetch"
    /\ Settles(c, scall[c].op, "pull", "rejected", {"onSyncError", "onSyncComplete"}, 0,
               [NoApply EXCEPT !.dbAtCall = scall[c].dbAtCall])
    /\ UNCHANGED <<lastSyncTime, pendingQueue, scfg, localDb, now, nextSyncId, acked,
                   serverStore, beacon, mvars, xvars>>

\* pull, lines 446-448 and 474-477: the request failed or the answer was not 2xx
PullFail(c) ==
    /\ scall[c].pc = "pullFetch"
    /\ Settles(c, scall[c].op, "pull", "rejected", {"onSyncError"}, 0,
               [NoApply EXCEPT !.dbAtCall = scall[c].dbAtCall])
    /\ UNCHANGED <<lastSyncTime, pendingQueue, scfg, localDb, now, nextSyncId, acked, serverStore, beacon, mvars, xvars>>

\* pull, lines 472-473, and for sync() lines 532-541: the watermark advances
\* and the call ends; onSyncComplete may throw
PullFinish(c, applied, serverTime, hooks, apply) ==
    /\ lastSyncTime' = IF serverTime # 0 THEN serverTime ELSE now
    /\ IF scall[c].op = "sync"
       THEN \E completeThrows \in BOOLEAN :
              Settles(c, "sync", "pull", IF completeThrows THEN "rejected" ELSE "resolved",
                      hooks \cup {"onSyncComplete"}, applied, apply)
       ELSE Settles(c, "pull", "pull", "resolved", hooks, applied, apply)

\* pull, line 450: the response arrived, with `items` and `serverTime`
PullResponse(c, items, serverTime) ==
    /\ scall[c].pc = "pullFetch"
    /\ IF Len(items) = 0
       THEN PullFinish(c, 0, serverTime, {}, NoApply)
       ELSE /\ scall' = [scall EXCEPT ![c] = [@ EXCEPT !.pc = "pullItems", !.items = items,
                                                       !.serverTime = serverTime]]
            /\ ev' = Ev(scall[c].op, "pull", "none", {}, "none", 0, NoApply)
            /\ UNCHANGED <<lastSyncTime, isSyncing>>
    /\ UNCHANGED <<pendingQueue, scfg, localDb, now, nextSyncId, acked, serverStore, beacon, mvars, xvars>>

\* the response carries records another replica wrote
PullRespond(c, items, serverTime) ==
    /\ scall[c].pc = "pullFetch"
    /\ items \in SeqsUpTo(RemoteItems(scall[c].table), MaxItems)
    /\ PullResponse(c, items, serverTime)

\* the records of table t the server accepted from this manager, when
\* changes are queued for table notes only
PushedRecords(t) == IF t = "notes" THEN serverStore ELSE {}

\* the response carries records this manager pushed, as the server holds them
PullBack(c, items, serverTime) ==
    /\ scall[c].pc = "pullFetch"
    /\ Len(items) > 0
    /\ items \in SeqsUpTo(PushedRecords(scall[c].table), MaxItems)
    /\ PullResponse(c, items, serverTime)

\* pull, lines 454-470: one round of the loop, for the next fetched item.
\* queryFails: localDb.query rejects; hook: what onConflict does when it is
\* invoked; mutateFails: localDb.mutate rejects
PullItem(c, queryFails, hook, mutateFails) ==
    /\ scall[c].pc = "pullItems"
    /\ LET call == scall[c]
           item == Head(call.items)
           localData == getLocalRecord(localDb, call.table, item.id, queryFails)
           conflict == localData # NoRow /\ isLocalNewer(localData, item)
           skipped == conflict /\ hookSkips(hook)
           toApply == IF conflict
                      THEN resolveConflict(localData, item, scfg.conflictStrategy)
                      ELSE item
           res == applyToLocal(toApply)
           outcome == IF conflict /\ hook = "throw" THEN "hookThrew"
                      ELSE IF skipped THEN "skipped"
                      ELSE IF ~res.ok THEN res.error
                      ELSE IF mutateFails THEN "mutateFailed"
                      ELSE "written"
           hooks == IF conflict THEN {"onConflict"} ELSE {}
           apply == [done |-> TRUE, table |-> call.table, dbAtCall |-> call.dbAtCall,
                     conflict |-> conflict,
                     hook |-> IF conflict THEN hook ELSE "none",
                     local |-> localData, item |-> item,
                     \* line 465: const resolved = resolveConflict(...)
                     resolved |-> IF conflict /\ hook = "proceed" THEN toApply ELSE NoRow,
                     outcome |-> outcome,
                     row |-> IF outcome = "written" THEN res.row ELSE NoRow]
           applied == call.applied + (IF outcome = "written" THEN 1 ELSE 0)
       IN
       /\ (~conflict) => hook = "proceed"
       /\ (outcome # "written" /\ outcome # "mutateFailed") => ~mutateFails
       /\ localDb' = IF outcome = "written"
                     THEN [localDb EXCEPT ![call.table][res.row.id] = res.row]
                     ELSE localDb
       /\ IF outcome \notin {"written", "skipped"}
          THEN \* lines 474-477: the error reaches the catch block of pull
               /\ Settles(c, call.op, "pull", "rejected", hooks \cup {"onSyncError"},
                          call.applied, apply)
               /\ UNCHANGED lastSyncTime
          ELSE IF Len(call.items) = 1
          THEN PullFinish(c, applied, call.serverTime, hooks, apply)
          ELSE /\ scall' = [scall EXCEPT ![c] = [@ EXCEPT !.items = Tail(call.items),
                                                          !.applied = applied]]
               /\ ev' = Ev(call.op, "pull", "none", hooks, "none", applied, apply)
               /\ UNCHANGED <<lastSyncTime, isSyncing>>
    /\ UNCHANGED <<pendingQueue, scfg, now, nextSyncId, acked, serverStore, beacon, mvars, xvars>>

\* a variant of lines 576-583 that takes the records it sends off the queue
UnloadClears(t) ==
    /\ beacon' = [table |-> t, clientId |-> clientId,
                  items |-> RecordsOf(pendingForTable(pendingQueue, t))]
    /\ pendingQueue' = clearPushed(pendingQueue, t)
    /\ ev' = Ev("unload", "none", "none", {}, "BEACON", Len(beacon'.items), NoApply)
    /\ UNCHANGED <<lastSyncTime, isSyncing, scfg, scall, localDb, now, nextSyncId,
                   acked, serverStore, mvars, xvars>>

\* the beforeunload listener setupAutoSync(t, fields) installs, lines 576-583
Unload(t) ==
    /\ beacon' = [table |-> t, clientId |-> clientId,
                  items |-> RecordsOf(pendingForTable(pendingQueue, t))]
    /\ ev' = Ev("unload", "none", "none", {}, "BEACON", Len(beacon'.items), NoApply)
    /\ UNCHANGED <<lastSyncTime, pendingQueue, isSyncing, scfg, scall, localDb, now, nextSyncId,
                   acked, serverStore, mvars, xvars>>

\* time passes on the server
ServerTick ==
    /\ serverClock < MaxServerTime
    /\ serverClock' = serverClock + 1
    /\ ev' = Ev("serverTick", "none", "none", {}, "none", 0, NoApply)
    /\ UNCHANGED <<lastSyncTime, pendingQueue, isSyncing, scfg, scall, localDb, now, nextSyncId,
                   acked, serverStore, beacon, auto, mvars>>

\* the server answers the GET of call c and reports its clock as serverTime
ServerResponds(c, items) ==
    /\ scall[c].pc = "pullFetch"
    /\ items \in SeqsUpTo(RemoteItems(scall[c].table), MaxItems)
    /\ PullResponse(c, items, serverClock)

\* setupAutoSync(tableName, fields, {syncOnBlur, syncOnUnload}) in a browser,
\* lines 558-586: setInterval and the two addEventListener calls.  (Outside
\* a browser, lines 561-564, it installs nothing.)
SetupAutoSync(t, syncOnBlur, syncOnUnload) ==
    /\ auto = NoAutoSync
    /\ auto' = [table |-> t, interval |-> TRUE, blur |-> syncOnBlur, unload |-> syncOnUnload,
                cleaned |-> FALSE]
    /\ ev' = Ev("setupAutoSync", "none", "resolved", {}, "none", 0, NoApply)
    /\ UNCHANGED <<lastSyncTime, pendingQueue, isSyncing, scfg, scall, localDb, now, nextSyncId,
                   acked, serverStore, beacon, serverClock, mvars>>

\* the function setupAutoSync returned, line 586: clearInterval(intervalId)
Cleanup ==
    /\ auto # NoAutoSync
    /\ ~auto.cleaned
    /\ auto' = [auto EXCEPT !.interval = FALSE, !.cleaned = TRUE]
    /\ ev' = Ev("cleanup", "none", "resolved", {}, "none", 0, NoApply)
    /\ UNCHANGED <<lastSyncTime, pendingQueue, isSyncing, scfg, scall, localDb, now, nextSyncId,
                   acked, serverStore, beacon, serverClock, mvars>>

\* the interval of line 567 elapses: sync(tableName, fields)
TimerFires(c) ==
    /\ auto.interval
    /\ \/ SyncCall(c, auto.table)
       \/ FreeSyncSlot(c) /\ SyncSkipped(auto.table)

\* the window loses focus and the listener of line 571 runs: sync(tableName, fields)
BlurFires(c) ==
    /\ auto.blur
    /\ \/ SyncCall(c, auto.table)
       \/ FreeSyncSlot(c) /\ SyncSkipped(auto.table)

\* the page is about to unload and the listener of lines 576-583 runs
BeforeUnload ==
    /\ auto.unload
    /\ Unload(auto.table)

\* the caller drops the settled promise of call c
Release(c) ==
    /\ scall[c].pc = "done"
    /\ scall' = [scall EXCEPT ![c] = IdleSync]
    /\ ev' = Ev("release", "none", "none", {}, "none", 0, NoApply)
    /\ UNCHANGED <<lastSyncTime, pendingQueue, isSyncing, scfg, localDb, now, nextSyncId,
                   acked, serverStore, beacon, mvars, xvars>>

----------------------------------------------------------------------------
(* Specifications *)

MonConfigs == [isWasm : BOOLEAN, callbacks : CallbackSets]

MonNext ==
    \/ \E p \in MonSlots, bytes \in TrackInputs : TrackBytes(p, bytes)
    \/ \E p \in MonSlots, q \in Queries, ps \in ParamSizes : RunWasm(p, q, ps)
    \/ \E p \in MonSlots, q \in Queries, ps \in ParamSizes : RunAsync(p, q, ps)
    \/ \E p \in MonSlots : DbSettle(p)
    \/ \E p \in MonSlots : ResumeStateCb(p)
    \/ \E p \in MonSlots : CallbackThrows(p)
    \/ \E p \in MonSlots : ResumeOverflowCb(p)
    \/ Reset

\* the caller has awaited every earlier run() and trackBytes() call
MonAwaited == \A p \in MonSlots : mcall[p].pc = "idle"

\* tracked writes awaited one after another, with callbacks that return
\* normally and no reset()
MonAwaitedNext ==
    \/ \E p \in MonSlots, bytes \in TrackInputs : MonAwaited /\ TrackBytes(p, bytes)
    \/ \E p \in MonSlots, q \in Queries, ps \in ParamSizes : MonAwaited /\ RunWasm(p, q, ps)
    \/ \E p \in MonSlots, q \in Queries, ps \in ParamSizes : MonAwaited /\ RunAsync(p, q, ps)
    \/ \E p \in MonSlots : DbSettle(p)
    \/ \E p \in MonSlots : ResumeStateCb(p)
    \/ \E p \in MonSlots : ResumeOverflowCb(p)

\* a memory monitor in use, beside an untouched sync manager
MonInit ==
    /\ MonConstructed(MonConfigs)
    /\ SyncConstructed({"server"}, {NoRow})

MonSpec == MonInit /\ [][MonNext]_vars

MonAwaitedSpec == MonInit /\ [][MonAwaitedNext]_vars

SyncNext ==
    \/ \E t \in Tables, d \in DataInputs : QueueChange(t, 1, d)
    \/ \E t \in Tables : SyncSkipped(t)
    \/ \E t \in Tables : SyncStartThrows(t)
    \/ \E c \in SyncSlots, t \in Tables : SyncCall(c, t)
    \/ \E c \in SyncSlots : PushOk(c)
    \/ \E c \in SyncSlots : PushFail(c)
    \/ \E c \in SyncSlots : PullFail(c)
    \/ \E c \in SyncSlots, items \in SeqsUpTo(RemoteItems("notes"), MaxItems),
          st \in ServerTimes : PullRespond(c, items, st)
    \/ \E c \in SyncSlots, qf \in BOOLEAN, hook \in {"skip", "proceed", "throw"},
          mf \in BOOLEAN : PullItem(c, qf, hook, mf)

\* sync() cycles of a manager with the default conflict strategy and an empty
\* local store, beside an untouched memory monitor
SyncInit ==
    /\ SyncConstructed({"server"}, {NoRow})
    /\ MonConstructed({[isWasm |-> FALSE, callbacks |-> {"onOverflow"}]})

SyncSpec == SyncInit /\ [][SyncNext]_vars

PullNext ==
    \/ Tick
    \/ \E c \in SyncSlots, t \in Tables : PullAwaited(c, t)
    \/ \E c \in SyncSlots : PullFail(c)
    \/ \E c \in SyncSlots, items \in SeqsUpTo(RemoteItems("notes"), MaxItems),
          st \in ServerTimes : PullRespond(c, items, st)
    \/ \E c \in SyncSlots, qf \in BOOLEAN, hook \in {"skip", "proceed", "throw"},
          mf \in BOOLEAN : PullItem(c, qf, hook, mf)

\* pull() calls awaited one after another, under each conflict strategy, over
\* a local store that may already hold the record
PullInit ==
    /\ SyncConstructed(Strategies, LocalInits)
    /\ MonConstructed({[isWasm |-> FALSE, callbacks |-> {"onOverflow"}]})

PullSpec == PullInit /\ [][PullNext]_vars

PushNext ==
    \/ \E t \in Tables, d \in DataInputs : QueueChange(t, 1, d)
    \/ \E c \in SyncSlots, t \in Tables : PushCall(c, t)
    \/ \E c \in SyncSlots : PushOk(c)
    \/ \E c \in SyncSlots : PushFail(c)
    \/ \E c \in SyncSlots : Release(c)

RoundTripNext ==
    \/ Tick
    \/ \E d \in RoundTripData : QueueChange("notes", 1, d)
    \/ \E c \in SyncSlots, t \in Tables : PushAwaited(c, t)
    \/ \E c \in SyncSlots : PushOk(c)
    \/ \E c \in SyncSlots : PushFail(c)
    \/ \E c \in SyncSlots, t \in Tables : PullAwaited(c, t)
    \/ \E c \in SyncSlots : PullFail(c)
    \/ \E c \in SyncSlots, items \in SeqsUpTo(PushedRecords("notes"), MaxItems),
          st \in ServerTimes : PullBack(c, items, st)
    \/ \E c \in SyncSlots, qf \in BOOLEAN, hook \in {"skip", "proceed", "throw"},
          mf \in BOOLEAN : PullItem(c, qf, hook, mf)

\* records queued for table notes, pushed and pulled back, the calls awaited
\* one after another, with no other replica writing
RoundTripSpec == PullInit /\ [][RoundTripNext]_vars

AutoSyncNext ==
    \/ \E t \in Tables, d \in DataInputs : QueueChange(t, 1, d)
    \/ \E c \in SyncSlots, t \in Tables : SyncCall(c, t)
    \/ \E c \in SyncSlots : PushOk(c)
    \/ \E c \in SyncSlots : PushFail(c)
    \/ \E c \in SyncSlots : PullFail(c)
    \/ \E c \in SyncSlots, st \in ServerTimes : PullRespond(c, <<>>, st)
    \/ \E t \in Tables : Unload(t)

\* a page with setupAutoSync: queueChange(), the sync() calls of the interval
\* and blur triggers, and the beforeunload trigger at any moment
AutoSyncSpec == SyncInit /\ [][AutoSyncNext]_vars

SendNext ==
    \/ Tick
    \/ \E t \in Tables, d \in DataInputs : QueueChange(t, 1, d)
    \/ \E c \in SyncSlots, t \in Tables : PushCall(c, t)
    \/ \E c \in SyncSlots : PushOk(c)
    \/ \E c \in SyncSlots : PushFail(c)
    \/ \E t \in Tables : Unload(t)

\* every way a queued record leaves the page: queueChange(), push() calls
\* that overlap, fail and are made again, and the beforeunload beacon, while
\* the clock advances
SendSpec == SyncInit /\ [][SendNext]_vars

OverlapNext ==
    \/ ServerTick
    \/ \E c \in SyncSlots, t \in Tables : SyncCall(c, t)
    \/ \E c \in SyncSlots, t \in Tables : PullCall(c, t)
    \/ \E c \in SyncSlots : PullFail(c)
    \/ \E c \in SyncSlots, items \in SeqsUpTo(RemoteItems("notes"), MaxItems) :
          ServerResponds(c, items)
    \/ \E c \in SyncSlots, qf \in BOOLEAN, hook \in {"skip", "proceed", "throw"},
          mf \in BOOLEAN : PullItem(c, qf, hook, mf)

\* sync() and direct pull() calls that overlap as the caller pleases, against
\* a server that reports its own non-decreasing clock in every response
OverlapSpec == SyncInit /\ [][OverlapNext]_vars

GuardNext ==
    \/ \E t \in Tables, d \in DataInputs : QueueChange(t, 1, d)
    \/ \E t \in Tables : SyncSkipped(t)
    \/ \E c \in SyncSlots, t \in Tables : SyncCall(c, t)
    \/ \E c \in SyncSlots : PushOk(c)
    \/ \E c \in SyncSlots : PushFail(c)
    \/ \E c \in SyncSlots : PullFail(c)
    \/ \E c \in SyncSlots, st \in ServerTimes : PullRespond(c, <<>>, st)

\* sync() called for either table at any moment, also while a cycle is in
\* progress, with changes queued for both tables; the server has nothing new
GuardSpec == SyncInit /\ [][GuardNext]_vars

AutoCleanupNext ==
    \/ \E t \in Tables, b \in BOOLEAN, u \in BOOLEAN : SetupAutoSync(t, b, u)
    \/ Cleanup
    \/ \E t \in Tables, d \in DataInputs : QueueChange(t, 1, d)
    \/ \E c \in SyncSlots : TimerFires(c)
    \/ \E c \in SyncSlots : BlurFires(c)
    \/ BeforeUnload
    \/ \E c \in SyncSlots : PushOk(c)
    \/ \E c \in SyncSlots : PushFail(c)
    \/ \E c \in SyncSlots : PullFail(c)
    \/ \E c \in SyncSlots, st \in ServerTimes : PullRespond(c, <<>>, st)

\* a page that calls setupAutoSync once and later the function it returned;
\* sync() is called by the triggers only
AutoCleanupSpec == SyncInit /\ [][AutoCleanupNext]_vars

\* queueChange() and push(), with calls overlapping as the caller pleases
PushSpec == SyncInit /\ [][PushNext]_vars

\* the caller pushes a table again whenever it has pending entries and drops
\* settled promises; the endpoint does not reject a request for ever
PushFairness ==
    /\ \A t \in Tables :
         WF_vars(Len(pendingForTable(pendingQueue, t)) > 0 /\ \E c \in SyncSlots : PushCall(c, t))
    /\ \A c \in SyncSlots : WF_vars(Release(c))
    /\ \A c \in SyncSlots : SF_vars(PushOk(c))

\* queueChange() and push() with a caller that retries and an endpoint that
\* eventually accepts
PushLiveSpec == SyncInit /\ [][PushNext]_vars /\ PushFairness

----------------------------------------------------------------------------
(* Memory monitor: properties *)

\* C4 (as claimed): over any interleaving of run() and trackBytes() calls with
\* no reset() in between, onWarning is invoked at most once and onCritical is
\* invoked at most once (`fired` counts the invocations since the last reset).
C4_StateCallbackAtMostOnce ==
    fired["onWarning"] <= 1 /\ fired["onCritical"] <= 1

\* C7 (as claimed): a tracked write invokes onOverflow exactly when
\* bytesWritten > maxBytes right after that write.
C7_OverflowIffOverAfterWrite ==
    (lastOv.tested /\ "onOverflow" \in mcfg.callbacks)
        => (lastOv.fired <=> lastOv.afterBytes > maxBytes)

\* C7 (amended): a tracked write invokes onOverflow exactly when bytesWritten >
\* maxBytes at the moment its threshold check reaches the overflow test (not at
\* bytesWritten == maxBytes), whether or not the band changed; that moment is
\* right after the write unless the check first awaited a state-change callback.
C7_OverflowIffOverAtTest ==
    (lastOv.tested /\ "onOverflow" \in mcfg.callbacks)
        => /\ lastOv.fired <=> lastOv.checkBytes > maxBytes
           /\ ~lastOv.viaAwait => lastOv.checkBytes = lastOv.afterBytes

\* C7 witness: onOverflow fired on a write that left the band unchanged
\* (critical before and after), tested right after the write.
C7_Witness ==
    /\ lastOv.tested /\ lastOv.fired /\ ~lastOv.viaAwait
    /\ lastEval.currentStatus = "critical" /\ lastEval.callback = "none"
    /\ "onCritical" \in mcfg.callbacks
    /\ lastOv.checkBytes > maxBytes

\* C8 (as claimed): after a reset(), the first later tracked write that lands
\* in the warning (critical) band fires onWarning (onCritical) again: a
\* classification made after a reset that lands in a band whose callback has
\* not fired since the reset invokes that callback.
C8_FiresAgainAfterReset ==
    (lastEval.epoch > 0) =>
        /\ (lastEval.currentStatus = "warning" /\ "onWarning" \in mcfg.callbacks
             /\ lastEval.firedBefore["onWarning"] = 0) => lastEval.callback = "onWarning"
        /\ (lastEval.currentStatus = "critical" /\ "onCritical" \in mcfg.callbacks
             /\ lastEval.firedBefore["onCritical"] = 0) => lastEval.callback = "onCritical"

\* C9: with no reset() in between (the epoch is the same), bytesWritten never
\* decreases; it returns to a smaller value only through reset().
C9_BytesWrittenMonotone ==
    [][epoch' = epoch => getStats'.bytesWritten >= getStats.bytesWritten]_vars

\* C9 witness: two tracked writes of one epoch have raised bytesWritten.
C9_Witness ==
    epoch = 0 /\ mstarted = 2 /\ lastOv.tested /\ state.bytesWritten > 80

----------------------------------------------------------------------------
(* Sync manager: properties *)

SyncInFlight == { c \in SyncSlots : scall[c].op = "sync" /\ InFlight(c) }

QueuedSyncIds == { pendingQueue[i].record.syncId : i \in 1..Len(pendingQueue) }

\* C1: at most one push+pull cycle of sync() is in progress at a time; a
\* sync() call that finds a cycle in progress returns {skipped: true} in the
\* same step, sends no request, invokes no hook, starts no call, and leaves
\* the pending queue, lastSyncTime, the flag and the local store as they were.
C1_SingleFlight ==
    /\ [](Cardinality(SyncInFlight) <= 1)
    /\ [](SyncInFlight # {} => isSyncing)
    /\ [](ev.result = "skipped" => ev.hooks = {} /\ ev.req = "none")
    /\ [][ev'.result = "skipped" =>
             UNCHANGED <<pendingQueue, lastSyncTime, isSyncing, scall, localDb, acked>>]_vars

\* C1 witness: a sync() call was skipped while a cycle with a non-empty batch
\* was waiting for the server.
C1_Witness ==
    /\ ev.op = "sync" /\ ev.result = "skipped"
    /\ \E c \in SyncInFlight : scall[c].pc = "pushFetch" /\ Len(scall[c].batch) > 0

\* C2 (as claimed): no entry has left the pending queue unless it was part of
\* a batch the server answered with 2xx.
C2_RemovedOnlyIfAcked ==
    \A sid \in 1..(nextSyncId - 1) : sid \in QueuedSyncIds \/ sid \in acked

\* C3: the step in which a push fails raises the error (after onSyncError) and
\* removes no entry from the pending queue: pendingCount is what it was.
C3_FailedPushKeepsQueue ==
    [][(ev'.phase = "push" /\ ev'.result = "rejected") =>
          /\ "onSyncError" \in ev'.hooks
          /\ pendingQueue' = pendingQueue
          /\ getStatus'.pendingCount = getStatus.pendingCount]_vars

\* C3 witness: a push of one queued change has just failed and the change is
\* still pending.
C3_Witness ==
    /\ ev.op = "push" /\ ev.phase = "push" /\ ev.result = "rejected"
    /\ getStatus.pendingCount = 1
    /\ \A c \in SyncSlots : ~InFlight(c)

\* C5 (as claimed): once no sync() call is running, isSyncing is false, so
\* that the next sync() call is not skipped.
C5_ReturnsToIdle ==
    (SyncInFlight = {}) => ~getStatus.isSyncing

\* C6 (as claimed): every queued record is eventually part of a POST the
\* server answers with 2xx.
C6_EventuallyAcked ==
    \A sid \in 1..MaxQueued : (nextSyncId > sid) ~> (sid \in acked)

\* the columns [id, title, updatedAt] of a record: a field of the record, or
\* else of its payload
ResolvedColumns(record) ==
    Row(record.id,
        IF Present(record.title) THEN record.title ELSE record.data.title,
        record.updatedAt)

\* C10 (as claimed): for a fetched record whose local copy is strictly newer,
\* unless the conflict hook skips it (or throws, or the store rejects the
\* write), the row written is resolveConflict(local, remote, strategy).
C10_ResolvedValueWritten ==
    (ev.apply.done /\ ev.apply.conflict /\ ev.apply.hook = "proceed"
        /\ ev.apply.outcome # "mutateFailed")
    => /\ ev.apply.outcome = "written"
       /\ ev.apply.row = ResolvedColumns(resolveConflict(ev.apply.local, ev.apply.item,
                                                         scfg.conflictStrategy))

\* the row the local store holds for the record that the latest round of
\* pull's loop fetched, before and after that round
StoredBefore == localDb[ev'.apply.table][ev'.apply.item.id]
StoredAfter == localDb'[ev'.apply.table][ev'.apply.item.id]

\* C11: isLocalNewer(x, x) is false, and in pull a fetched record for which
\* the store holds no row, a row with the same updatedAt or an older row is
\* applied as received, whatever the strategy: onConflict is not invoked and,
\* unless the store rejects the write, the row stored is the fetched record's.
C11_TiesNeverFavorLocal ==
    /\ [](\A u \in 0..(MaxTime + 5) : ~isLocalNewer(Row(1, "L", u), Row(1, "R", u)))
    /\ [][(ev'.apply.done
            /\ (StoredBefore = NoRow \/ StoredBefore.updatedAt <= ev'.apply.item.updatedAt))
          => /\ ~ev'.apply.conflict
             /\ "onConflict" \notin ev'.hooks
             /\ ev'.apply.outcome \in {"written", "mutateFailed"}
             /\ ev'.apply.outcome = "written" => StoredAfter = ResolvedColumns(ev'.apply.item)
         ]_vars

\* C11 witness: under strategy "local", a fetched record with the updatedAt
\* of the stored row has been written over it.
C11_Witness ==
    /\ scfg.conflictStrategy = "local"
    /\ ev.apply.done /\ ~ev.apply.conflict
    /\ ev.apply.local # NoRow /\ ev.apply.local.title = "L"
    /\ ev.apply.local.updatedAt = ev.apply.item.updatedAt
    /\ ev.apply.outcome = "written"
    /\ localDb[ev.apply.table][ev.apply.item.id] = ResolvedColumns(ev.apply.item)

\* the sync ids of the records call c sent in its POST
BatchSyncIds(c) == { scall[c].batch[i].syncId : i \in 1..Len(scall[c].batch) }

\* C12: within one sync() call the GET is issued only when the call found
\* nothing queued for the table, or in the step in which its POST was answered
\* with 2xx; in both cases no entry of the table is queued when the GET goes
\* out.  A sync() call whose push fails issues no request, rejects, and leaves
\* lastSyncTime as it was.
C12_PushPrecedesPull ==
    /\ [][\A c \in SyncSlots :
            (scall'[c].op = "sync" /\ scall'[c].pc = "pullFetch" /\ scall[c].pc # "pullFetch")
            => /\ ev'.req = "GET"
               /\ \/ scall[c].pc = "idle" /\ pendingForTable(pendingQueue, scall'[c].table) = <<>>
                  \/ scall[c].pc = "pushFetch" /\ BatchSyncIds(c) \subseteq acked'
               /\ pendingForTable(pendingQueue', scall'[c].table) = <<>>
         ]_vars
    /\ [][(ev'.op = "sync" /\ ev'.phase = "push" /\ ev'.result = "rejected")
            => /\ ev'.req = "none"
               /\ lastSyncTime' = lastSyncTime
               /\ \A c \in SyncSlots : scall'[c].pc # "pullFetch"
         ]_vars

\* C12 witness: a sync() call has had its POST accepted and has sent its GET.
C12_Witness ==
    /\ ev.op = "sync" /\ ev.phase = "pull" /\ ev.req = "GET"
    /\ acked # {}
    /\ \E c \in SyncSlots : scall[c].op = "sync" /\ scall[c].pc = "pullFetch"

\* the sync ids queued for table t
QueuedSyncIdsOf(t) ==
    { pendingQueue[i].record.syncId :
        i \in { j \in 1..Len(pendingQueue) : pendingQueue[j].tableName = t } }

\* C13: the POST of a push carries exactly the records queued for the table
\* when push was called, in the order they were queued and each with the
\* manager's clientId; the request does not change while it is in flight, so
\* a record queued later is not part of it.
C13_PushSendsSnapshot ==
    [][\A c \in SyncSlots :
         /\ (scall[c].pc = "idle" /\ scall'[c].pc = "pushFetch")
            => /\ ev'.req = "POST" /\ ev'.count = Len(scall'[c].batch)
               /\ BatchSyncIds(c)' = QueuedSyncIdsOf(scall'[c].table)
               /\ Len(scall'[c].batch) = Cardinality(QueuedSyncIdsOf(scall'[c].table))
               /\ \A i, j \in 1..Len(scall'[c].batch) :
                     i < j => scall'[c].batch[i].syncId < scall'[c].batch[j].syncId
               /\ \A i \in 1..Len(scall'[c].batch) :
                     /\ scall'[c].batch[i].clientId = clientId
                     /\ \E k \in 1..Len(pendingQueue) :
                           /\ pendingQueue[k].tableName = scall'[c].table
                           /\ pendingQueue[k].record = scall'[c].batch[i]
         /\ (scall[c].pc = "pushFetch" /\ scall'[c].pc = "pushFetch")
            => scall'[c].batch = scall[c].batch
    ]_vars

\* C13 witness: a push is in flight with one record, and a second record has
\* been queued for the same table since.
C13_Witness ==
    \E c \in SyncSlots :
      /\ scall[c].pc = "pushFetch" /\ scall[c].op = "push"
      /\ Len(scall[c].batch) = 1
      /\ Cardinality(QueuedSyncIdsOf(scall[c].table)) = 2

\* C14: lastSyncTime changes only in the step that ends a pull whose fetched
\* records were all processed without error, and is then the serverTime of
\* the response, or the local clock if the response has none; a step in which
\* a pull fails leaves it unchanged, and every GET asks for the changes since
\* the current lastSyncTime.
C14_WatermarkOnlyAfterPull ==
    /\ [][lastSyncTime' # lastSyncTime =>
            /\ ev'.phase = "pull" /\ "onSyncError" \notin ev'.hooks
            /\ \E c \in SyncSlots :
                  /\ scall'[c].pc = "done"
                  /\ \/ /\ scall[c].pc = "pullItems" /\ Len(scall[c].items) = 1
                        /\ ev'.apply.outcome \in {"written", "skipped"}
                        /\ lastSyncTime' = IF scall[c].serverTime # 0
                                            THEN scall[c].serverTime ELSE now
                     \/ /\ scall[c].pc = "pullFetch"
                        /\ lastSyncTime' \in (ServerTimes \ {0}) \cup {now}
         ]_vars
    /\ [][(ev'.phase = "pull" /\ "onSyncError" \in ev'.hooks) =>
            /\ ev'.result = "rejected"
            /\ lastSyncTime' = lastSyncTime
         ]_vars
    /\ [][ev'.req = "GET" => ev'.count = lastSyncTime /\ lastSyncTime' = lastSyncTime]_vars

\* C14 witness: a pull has applied a record of a response without serverTime
\* and has set lastSyncTime, until then 0, to the local clock.
C14_Witness ==
    /\ ev.phase = "pull" /\ ev.result = "resolved"
    /\ ev.apply.done /\ ev.apply.outcome = "written"
    /\ lastSyncTime = now
    /\ Len(pendingQueue) > 0

\* C15 (as claimed): when a pull has failed, the local store holds exactly
\* what it held when the pull was called.
C15_FailedPullLeavesStore ==
    (ev.phase = "pull" /\ ev.result = "rejected" /\ "onSyncError" \in ev.hooks)
    => localDb = ev.apply.dbAtCall

\* C16: when tracked writes are awaited one after another (no reset, no
\* throwing callback), a write that ends in the warning band fires onWarning
\* if and only if no earlier write has fired it, so onWarning fires exactly
\* once, on the first write into the band; likewise onCritical.
C16_AwaitedWritesFireOnce ==
    /\ fired["onWarning"] <= 1 /\ fired["onCritical"] <= 1
    /\ (lastEval.currentStatus = "warning" /\ "onWarning" \in mcfg.callbacks)
       => (lastEval.callback = "onWarning" <=> lastEval.firedBefore["onWarning"] = 0)
    /\ (lastEval.currentStatus = "critical" /\ "onCritical" \in mcfg.callbacks)
       => (lastEval.callback = "onCritical" <=> lastEval.firedBefore["onCritical"] = 0)
    /\ lastEval.currentStatus = "ok" => lastEval.callback = "none"

\* C16 witness: a second awaited write has stayed in the warning band, above
\* the first, and has fired nothing; onWarning has fired once.
C16_Witness ==
    /\ MonAwaited /\ mstarted = 2
    /\ state.bytesWritten = 90
    /\ lastEval.currentStatus = "warning" /\ lastEval.callback = "none"
    /\ lastEval.firedBefore["onWarning"] = 1 /\ fired["onWarning"] = 1

----------------------------------------------------------------------------
(* Memory monitor: the pure functions over bounded inputs *)

\* usage ratios n/MaxRatioDen of [0, 1]
MaxRatioDen == 20
Ratios == { <<n, MaxRatioDen>> : n \in 0..MaxRatioDen }

\* thresholds, in percent
Thresholds == {0, 10, 50, 80, 95, 100}
ThresholdOptions ==
    { o \in [warningThreshold : Thresholds, criticalThreshold : Thresholds] :
        o.warningThreshold <= o.criticalThreshold }

Severity(status) == CASE status = "ok" -> 0 [] status = "warning" -> 1 [] status = "critical" -> 2

\* r1 <= r2 for fractions
FracLeq(r1, r2) == r1[1] * r2[2] <= r2[1] * r1[2]

\* the classifier on every ratio and every pair of thresholds of the bounded
\* sets: the three bands
ClassifierBands ==
    \A o \in ThresholdOptions, r \in Ratios :
      LET status == getMemoryStatus(r, o)
          geC == r[1] * 100 >= o.criticalThreshold * r[2]
          geW == r[1] * 100 >= o.warningThreshold * r[2]
      IN /\ status = "critical" <=> geC
         /\ status = "warning" <=> (geW /\ ~geC)
         /\ status = "ok" <=> ~geW

\* ... and its monotonicity in the ratio
ClassifierMonotone ==
    \A o \in ThresholdOptions, r1 \in Ratios, r2 \in Ratios :
      FracLeq(r1, r2) => Severity(getMemoryStatus(r1, o)) <= Severity(getMemoryStatus(r2, o))

\* C17: for thresholds 0 <= w <= c <= 1 and a ratio r of [0, 1] the classifier
\* returns critical iff r >= c, warning iff w <= r < c and ok iff r < w; it is
\* monotone in r; and getStats().status is this classification of the ratio
\* of the current bytesWritten under the monitor's thresholds.
C17_ClassifierBands ==
    /\ ClassifierBands
    /\ ClassifierMonotone
    /\ LET b == state.bytesWritten
           r == IF b >= maxBytes THEN maxBytes ELSE b
       IN /\ getStats.status = "critical" <=> r * 100 >= criticalThreshold * maxBytes
          /\ getStats.status = "warning" <=> /\ r * 100 >= warningThreshold * maxBytes
                                             /\ r * 100 < criticalThreshold * maxBytes
          /\ getStats.status = "ok" <=> r * 100 < warningThreshold * maxBytes

\* C17 witness: a write has brought the ratio to exactly the warning
\* threshold, and the status reported is warning.
C17_Witness ==
    /\ state.bytesWritten * 100 = warningThreshold * maxBytes
    /\ getStats.status = "warning"
    /\ lastEval.currentStatus = "warning"

\* byte counts and limits for the usage ratio
MaxProbeBytes == 12
ProbeBytes == 0..MaxProbeBytes
ProbeLimits == 1..(MaxProbeBytes - 2)

\* the ratio f is min(bytesWritten / max, 1), and lies in [0, 1]
IsClampedRatio(f, bytesWritten, max) ==
    /\ f[2] > 0 /\ 0 <= f[1] /\ f[1] <= f[2]
    /\ bytesWritten = 0 => f[1] = 0
    /\ bytesWritten >= max => f[1] = f[2]
    /\ bytesWritten < max => f[1] * max = bytesWritten * f[2]

\* calculateUsagePercent on every byte count and limit of the bounded sets
UsageClamped ==
    \A max \in ProbeLimits, b \in ProbeBytes :
      IsClampedRatio(calculateUsagePercent(b, max), b, max)

\* ... and its monotonicity in bytesWritten
UsageMonotone ==
    \A max \in ProbeLimits, b1 \in ProbeBytes, b2 \in ProbeBytes :
      b1 <= b2 => FracLeq(calculateUsagePercent(b1, max), calculateUsagePercent(b2, max))

\* C18: the usage ratio is bytesWritten / maxBytes clamped to [0, 1]: 0 at 0,
\* 1 at and above maxBytes, non-decreasing in bytesWritten; and the
\* usagePercent getStats() reports is that ratio of the current bytesWritten,
\* within [0, 1], after any sequence of run(), trackBytes() and reset().
C18_UsageRatioClamped ==
    /\ UsageClamped
    /\ UsageMonotone
    /\ IsClampedRatio(getStats.usagePercent, state.bytesWritten, maxBytes)

\* C18 witness: bytesWritten has passed maxBytes and getStats() reports 1.0.
C18_Witness ==
    /\ state.bytesWritten > maxBytes
    /\ getStats.usagePercent[1] = getStats.usagePercent[2]
    /\ mstarted = 2 /\ MonAwaited

----------------------------------------------------------------------------
(* Memory monitor: what run() counts *)

\* querySize + paramsSize of the runs of the model (lines 115-116, 129)
RunWriteSizes == { estimateDataSize(q.jsonSize) + estimateDataSize(ps) :
                     q \in Queries, ps \in ParamSizes }

\* C19: run() updates the counters exactly when the query denotes a mutating
\* operation: once the backend has answered such a query with a result,
\* estimateSize(query) + estimateSize(params) was added to bytesWritten (and the
\* rows to rowCount); for any other query bytesWritten, rowCount and the
\* recorded status are unchanged and no callback is invoked.
C19_CountsExactlyMutations ==
    lastRun.outcome = "returned" =>
        IF DenotesMutation(lastRun.query)
        THEN lastRun.added \in RunWriteSizes /\ lastRun.rows >= 1
        ELSE lastRun.added = 0 /\ lastRun.rows = 0 /\ ~lastRun.touched

\* the same, for the queries on which line 128 and the meaning of the query agree
C19_CountsWhereTextAgrees ==
    (lastRun.outcome = "returned" /\ IsMutation(lastRun.query) = DenotesMutation(lastRun.query))
        => IF DenotesMutation(lastRun.query)
           THEN lastRun.added \in RunWriteSizes /\ lastRun.rows >= 1
           ELSE lastRun.added = 0 /\ lastRun.rows = 0 /\ ~lastRun.touched

\* C20: when the backend's run fails, run() ends with that same error and
\* bytesWritten, rowCount and the recorded status are as before the call and
\* no callback is invoked.
C20_BackendFailureLeavesState ==
    lastRun.outcome \in {"threw", "returnedError"} =>
        lastRun.added = 0 /\ lastRun.rows = 0 /\ ~lastRun.touched

\* the same, for the failures the backend throws
C20_ThrownFailureLeavesState ==
    lastRun.outcome = "threw" =>
        lastRun.added = 0 /\ lastRun.rows = 0 /\ ~lastRun.touched

----------------------------------------------------------------------------
(* Sync manager: resolveConflict over bounded records *)

\* the strategy names handed to resolveConflict: the three it knows, a name it
\* does not know, and none (undefined)
StrategyArgs == Strategies \cup {"unknown", UndefStr}

\* records with every field present, absent (undefined) or null
ConflictRecords ==
    { JsRecord(id, data, cid, u, sid, title) :
        id \in {1, UndefNum}, data \in {JsonStringify("A"), UndefData},
        cid \in {clientId, UndefStr}, u \in 1..MaxTime, sid \in {7, UndefNum},
        title \in {"L", "null", UndefStr} }

\* the value v of field f is absent or null
Absent(f, v) ==
    IF f \in {"id", "syncId", "updatedAt"} THEN v = UndefNum
    ELSE IF f = "data" THEN v.kind = "undefined"
    ELSE v = UndefStr \/ v = "null"

\* what the strategies are to return
Resolved(local, remote, strategy) ==
    IF strategy = "local" THEN local
    ELSE IF strategy = "merge"
        THEN [f \in DOMAIN local |->
                IF f = "updatedAt" THEN Max(local.updatedAt, remote.updatedAt)
                ELSE IF Absent(f, local[f]) THEN remote[f] ELSE local[f]]
    ELSE remote

\* resolveConflict on every pair of records and every strategy argument
ResolveByStrategy ==
    \A local \in ConflictRecords, remote \in ConflictRecords, strategy \in StrategyArgs :
        resolveConflict(local, remote, strategy) = Resolved(local, remote, strategy)

\* C21: resolve(local, remote, "local") is local; with "server", with no
\* strategy and with an unknown strategy name it is remote; with "merge" it
\* is the record whose updatedAt is the larger of the two and whose every other
\* field is local's value where that is present and non-null, remote's
\* otherwise; and the record pull resolves for a conflict is that record, for
\* the stored row and the fetched record.
C21_ResolveByStrategy ==
    /\ ResolveByStrategy
    /\ (ev.apply.done /\ ev.apply.conflict /\ ev.apply.hook = "proceed")
         => ev.apply.resolved = Resolved(ev.apply.local, ev.apply.item, scfg.conflictStrategy)

\* C21 witness: pull has resolved a conflict under "merge": the title of the
\* stored row, the data of the fetched record, the stored row's updatedAt.
C21_Witness ==
    /\ scfg.conflictStrategy = "merge"
    /\ ev.apply.done /\ ev.apply.conflict /\ ev.apply.hook = "proceed"
    /\ ev.apply.resolved.title = "L"
    /\ ev.apply.resolved.data = ev.apply.item.data
    /\ ev.apply.resolved.updatedAt = ev.apply.local.updatedAt
    /\ ev.apply.local.updatedAt > ev.apply.item.updatedAt

----------------------------------------------------------------------------
(* Sync manager: a record pushed and pulled back *)

\* the data inputs from which queueChange() builds the record `item`
QueuedAs(item) ==
    { d \in RoundTripData :
        createSyncRecord(item.id, d, clientId, item.updatedAt, item.syncId) = item }

\* the title of the data handed to queueChange()
TitleOf(d) == IF d.isString THEN d.str.title ELSE d.title

\* the latest round of pull's loop handled a record this manager pushed, the
\* conflict hook (if asked) let it proceed and the store did not reject the write
PulledBack ==
    /\ ev.apply.done
    /\ ev.apply.item \in serverStore
    /\ ev.apply.hook \in {"none", "proceed"}
    /\ ev.apply.outcome # "mutateFailed"

\* C22 (as claimed): a record queued with queueChange(table, id, data), pushed
\* and pulled back with no remote change in between is applied to the local
\* store with the id and the data it was queued with.
C22_RoundTrip ==
    PulledBack =>
        \A d \in QueuedAs(ev.apply.item) :
            /\ ev.apply.outcome = "written"
            /\ ev.apply.row.id = ev.apply.item.id
            /\ ev.apply.row.title = TitleOf(d)
            /\ localDb[ev.apply.table][ev.apply.item.id] = ev.apply.row

\* the same, for data that is a payload object or its JSON text, when the
\* store holds no newer row for the id
C22_RoundTripOfJson ==
    (PulledBack /\ ev.apply.item.data.kind = "json" /\ ~ev.apply.conflict) =>
        \A d \in QueuedAs(ev.apply.item) :
            /\ ev.apply.outcome = "written"
            /\ ev.apply.row.id = ev.apply.item.id
            /\ ev.apply.row.title = TitleOf(d)
            /\ localDb[ev.apply.table][ev.apply.item.id] = ev.apply.row

\* a round trip of a payload object has been written
C22_RoundTripWritten ==
    /\ PulledBack /\ ev.apply.outcome = "written"
    /\ \E d \in QueuedAs(ev.apply.item) : ~d.isString /\ ev.apply.row.title = d.title

----------------------------------------------------------------------------
(* Sync manager: getStatus *)

\* C23: getStatus() reports the live state.  pendingCount is the number of
\* entries in the queue over all tables: it rises by 1 in the step of a
\* queueChange and falls by the size of the batch in the step of a successful
\* push.  lastSyncTime is the watermark: 0 at first, and changed only by the
\* step that ends a successful pull.  isSyncing is true in every state between
\* the start of a sync() call that was not skipped and its settling.
C23_StatusIsLive ==
    /\ getStatus.lastSyncTime = 0 /\ getStatus.pendingCount = 0 /\ ~getStatus.isSyncing
    /\ [](/\ getStatus.clientId = clientId
          /\ getStatus.pendingCount = Cardinality(QueuedSyncIds)
          /\ getStatus.lastSyncTime = lastSyncTime
          /\ SyncInFlight # {} => getStatus.isSyncing)
    /\ [][/\ ev'.op = "queueChange" => getStatus'.pendingCount = getStatus.pendingCount + 1
          /\ acked' # acked =>
                getStatus'.pendingCount < getStatus.pendingCount
                /\ getStatus.pendingCount - getStatus'.pendingCount
                     >= Cardinality(acked' \ acked)
          /\ getStatus'.lastSyncTime # getStatus.lastSyncTime =>
                /\ ev'.phase = "pull" /\ "onSyncError" \notin ev'.hooks
                /\ \E c \in SyncSlots : scall[c].pc \in {"pullFetch", "pullItems"}
                                          /\ scall'[c].pc = "done"
          /\ (SyncInFlight # {} /\ SyncInFlight' = {}) => ~getStatus'.isSyncing
         ]_vars

\* C23 witness: one sync() has completed and set the watermark; a second one
\* is in flight with one change queued behind it.
C23_Witness ==
    /\ getStatus.lastSyncTime # 0
    /\ getStatus.isSyncing /\ SyncInFlight # {}
    /\ getStatus.pendingCount = 1
    /\ acked # {}

----------------------------------------------------------------------------
(* Sync manager: push with nothing to send *)

\* the queue holds no entry of table t
NothingQueuedFor(t) == \A i \in 1..Len(pendingQueue) : pendingQueue[i].tableName # t

\* C24: push(table) called when no queued entry belongs to the table sends no
\* request, returns pushed = 0 in the same step, invokes no hook, and leaves
\* the queue (the entries of other tables included), lastSyncTime, isSyncing,
\* the calls in flight and the local store as they were.
C24_EmptyPushIsNoOp ==
    [][\A c \in SyncSlots, t \in Tables :
          (PushCall(c, t) /\ NothingQueuedFor(t)) =>
              /\ ev'.op = "push" /\ ev'.result = "resolved" /\ ev'.count = 0
              /\ ev'.req = "none" /\ ev'.hooks = {}
              /\ UNCHANGED <<pendingQueue, lastSyncTime, isSyncing, scall, localDb, acked,
                             serverStore>>
      ]_vars

\* C24 witness: a push for a table without entries has returned pushed = 0
\* while an entry of the other table is queued and another push is in flight.
C24_Witness ==
    /\ ev.op = "push" /\ ev.result = "resolved" /\ ev.count = 0 /\ ev.req = "none"
    /\ Len(pendingQueue) > 0
    /\ \E t \in Tables : NothingQueuedFor(t)
    /\ \E c \in SyncSlots : scall[c].pc = "pushFetch"

----------------------------------------------------------------------------
(* Sync manager: the beforeunload trigger *)

\* C25: the beforeunload trigger hands one message to sendBeacon, for the
\* table's endpoint, with the manager's clientId and exactly the records
\* queued for the table at that moment, in queue order; it starts no sync
\* cycle and no call, waits for nothing, invokes no hook, and leaves the
\* pending queue, lastSyncTime and isSyncing as they were.
C25_UnloadSendsBeacon ==
    [][(ev'.op = "unload" \/ beacon' # beacon) =>
          /\ ev'.op = "unload" /\ ev'.req = "BEACON" /\ ev'.hooks = {}
          /\ beacon'.table \in Tables
          /\ beacon'.clientId = clientId
          /\ ev'.count = Len(beacon'.items)
          /\ { beacon'.items[i].syncId : i \in 1..Len(beacon'.items) }
                = QueuedSyncIdsOf(beacon'.table)
          /\ Len(beacon'.items) = Cardinality(QueuedSyncIdsOf(beacon'.table))
          /\ \A i, j \in 1..Len(beacon'.items) :
                i < j => beacon'.items[i].syncId < beacon'.items[j].syncId
          /\ \A i \in 1..Len(beacon'.items) :
                \E k \in 1..Len(pendingQueue) :
                    /\ pendingQueue[k].tableName = beacon'.table
                    /\ pendingQueue[k].record = beacon'.items[i]
          /\ UNCHANGED <<pendingQueue, lastSyncTime, isSyncing, scall, localDb, acked,
                         serverStore>>
      ]_vars

\* C25 witness: the trigger fired while a sync() was waiting for the answer
\* to its POST: the beacon carries the record still queued, the queue keeps it
\* and isSyncing is still true.
C25_Witness ==
    /\ ev.op = "unload" /\ ev.req = "BEACON"
    /\ Len(beacon.items) = 1
    /\ Len(pendingQueue) = 2
    /\ isSyncing
    /\ \E c \in SyncSlots : scall[c].pc = "pushFetch"

----------------------------------------------------------------------------
(* Sync manager: queueChange *)

\* C26: queueChange appends exactly one entry at the tail of the pending
\* queue, an entry for the manager's client with a fresh syncId, and returns
\* that syncId; the entries already queued stay as they are and in their
\* order, also when the change is to an id that is queued already; and a push
\* sends the entries of a table in the order they were queued.
C26_QueueChangeAppends ==
    /\ [][ev'.op = "queueChange" =>
            LET n == Len(pendingQueue) IN
            /\ Len(pendingQueue') = n + 1
            /\ \A i \in 1..n : pendingQueue'[i] = pendingQueue[i]
            /\ pendingQueue'[n + 1].record.syncId = ev'.count
            /\ pendingQueue'[n + 1].record.clientId = clientId
            /\ pendingQueue'[n + 1].record.updatedAt = now
            /\ pendingQueue'[n + 1].tableName \in Tables
            /\ \A i \in 1..n : pendingQueue[i].record.syncId # ev'.count
            /\ UNCHANGED <<lastSyncTime, isSyncing, scall, localDb>>
         ]_vars
    /\ [](\A i, j \in 1..Len(pendingQueue) :
            i < j => pendingQueue[i].record.syncId < pendingQueue[j].record.syncId)
    /\ [](\A c \in SyncSlots : \A i, j \in 1..Len(scall[c].batch) :
            i < j => scall[c].batch[i].syncId < scall[c].batch[j].syncId)

\* C26 witness: two changes to the same id of the same table are queued one
\* after the other, and a push is sending both.
C26_Witness ==
    /\ Len(pendingQueue) = 2
    /\ pendingQueue[1].tableName = pendingQueue[2].tableName
    /\ pendingQueue[1].record.id = pendingQueue[2].record.id
    /\ \E c \in SyncSlots : scall[c].pc = "pushFetch" /\ Len(scall[c].batch) = 2
                              /\ scall[c].batch[1] = pendingQueue[1].record
                              /\ scall[c].batch[2] = pendingQueue[2].record

----------------------------------------------------------------------------
(* Memory monitor: estimateDataSize over bounded inputs *)

\* multipliers are the fractions n / d with n, d in 1..MaxMultiplier
MaxMultiplier == 5
MultiplierParts == 1..MaxMultiplier

\* JSON.stringify(v).length for the values of the tests and for empty values:
\* "" -> 2, {} -> 2, [] -> 2, null -> 4, 'hi' -> 4, 'hello' -> 7,
\* [1, 2, 3] -> 7, {key: 'value'} -> 15
JsonLength ==
    [empty |-> 2, emptyObject |-> 2, emptyArray |-> 2, null |-> 4, hi |-> 4, hello |-> 7,
     array123 |-> 7, keyValue |-> 15]

\* the estimate is the ceiling of length * multiplier, and positive
EstimateIsCeiling ==
    \A v \in DOMAIN JsonLength, n \in MultiplierParts, d \in MultiplierParts :
        LET len == JsonLength[v]
            e == estimateDataSizeOf(len, n, d)
        IN /\ e * d >= len * n
           /\ (e - 1) * d < len * n
           /\ e > 0

\* the estimates the tests expect, and the default multiplier 2.5
EstimateDefaults ==
    /\ estimateDataSize(JsonLength.hello) = 18
    /\ estimateDataSizeOf(JsonLength.hi, 1, 1) = 4
    /\ \A v \in DOMAIN JsonLength :
          /\ estimateDataSize(JsonLength[v]) = estimateDataSizeOf(JsonLength[v], 5, 2)
          /\ estimateDataSize(JsonLength[v]) > 0

\* C27: estimateSize(v, m) >= ceil(len(serialize(v)) * m) for every value and
\* every multiplier m > 0 (it is exactly that ceiling, with m = 2.5 when the
\* multiplier is omitted), and it is positive also for "", {} and []; the
\* bytes a tracked run() adds are such estimates of its query and its params.
C27_EstimateIsCeiling ==
    /\ EstimateIsCeiling
    /\ EstimateDefaults
    /\ lastRun.added # 0 =>
          \E ps \in ParamSizes :
              /\ lastRun.added = estimateDataSize(lastRun.query.jsonSize) + estimateDataSize(ps)
              /\ lastRun.added * MultiplierDen >= (lastRun.query.jsonSize + ps) * MultiplierNum

\* C27 witness: a run() has added the estimates of its query ("{}" as params)
\* to bytesWritten.
C27_Witness ==
    /\ lastRun.outcome = "returned" /\ lastRun.added > 0
    /\ state.bytesWritten >= lastRun.added
    /\ lastRun.added = estimateDataSize(lastRun.query.jsonSize)
                         + estimateDataSize(JsonLength.emptyObject)

----------------------------------------------------------------------------
(* Sync manager: the hooks of a sync() cycle *)

\* the step starts the sync() call of slot c / ends it
SyncStarts(c) == scall[c].pc = "idle" /\ scall'[c].op = "sync" /\ InFlight(c)'
SyncSettles(c) == scall[c].op = "sync" /\ InFlight(c) /\ scall'[c].pc = "done"

\* a hook threw in the step: onSyncStart, onConflict or onSyncComplete
HookThrew ==
    \/ ev'.phase = "start" /\ ev'.result = "rejected"
    \/ ev'.apply.outcome = "hookThrew"
    \/ ev'.result = "rejected" /\ "onSyncComplete" \in ev'.hooks /\ "onSyncError" \notin ev'.hooks

\* the cycle hooks the step invoked
CycleHooks == ev'.hooks \cap {"onSyncStart", "onSyncComplete", "onSyncError"}

\* C28: in a sync() call that is not skipped and in which no hook throws,
\* onSyncStart is invoked once, in the step that starts the call and sends its
\* first request; the step that ends the call invokes exactly one of
\* onSyncComplete (the call resolves, pull has finished, with the number of
\* records pulled) and onSyncError (push or pull failed, the call rejects); no
\* other step of the call invokes a cycle hook, and a cycle that failed never
\* invokes onSyncComplete.
C28_CycleHooks ==
    [][~HookThrew =>
        /\ \A c \in SyncSlots : SyncStarts(c) =>
              /\ CycleHooks = {"onSyncStart"}
              /\ ev'.req \in {"POST", "GET"}
        /\ "onSyncStart" \in ev'.hooks => \E c \in SyncSlots : SyncStarts(c)
        /\ \A c \in SyncSlots : SyncSettles(c) =>
              \/ /\ ev'.result = "resolved" /\ CycleHooks = {"onSyncComplete"}
                 /\ scall[c].pc \in {"pullFetch", "pullItems"}
                 /\ ev'.count = IF scall[c].pc = "pullItems"
                                 THEN scall[c].applied
                                        + (IF ev'.apply.outcome = "written" THEN 1 ELSE 0)
                                 ELSE 0
              \/ /\ ev'.result = "rejected" /\ CycleHooks = {"onSyncError"}
                 /\ scall[c].pc \in {"pushFetch", "pullFetch", "pullItems"}
        /\ (ev'.op = "sync" /\ CycleHooks \cap {"onSyncComplete", "onSyncError"} # {})
              => \E c \in SyncSlots : SyncSettles(c)
      ]_vars

\* C28 witness: a sync() call that pushed a record and pulled one has ended
\* with onSyncComplete.
C28_Witness ==
    /\ ev.op = "sync" /\ ev.result = "resolved"
    /\ ev.hooks = {"onSyncComplete"}
    /\ ev.count = 1
    /\ acked # {}
    /\ ~isSyncing

----------------------------------------------------------------------------
(* Memory monitor: a callback that throws *)

\* C29: a threshold callback that throws ends the run()/trackBytes() call
\* that awaited it, with the write already counted: the counters stay as they
\* are; and when the callback is onWarning or onCritical, the recorded status
\* is not advanced, the overflow test is not made and onOverflow is not
\* invoked for that write.
C29_ThrowingCallbackAborts ==
    [][\A p \in MonSlots :
          \* the callback is invoked when the write is in the counters
          /\ (mcall[p].pc = "idle" /\ mcall'[p].pc \in {"awaitStateCb", "awaitOverflowCb"})
                => /\ state'.bytesWritten >= state.bytesWritten
                   /\ state'.rowCount >= state.rowCount
                   /\ mcall'[p].pc = "awaitStateCb" => mcall'[p].afterBytes = state'.bytesWritten
          \* and its throwing ends the call and takes nothing back
          /\ CallbackThrows(p) =>
                /\ mcall'[p].pc = "idle"
                /\ state' = state
                /\ fired' = fired
                /\ mcall[p].pc = "awaitStateCb" => lastStatus' = lastStatus /\ lastOv' = lastOv
      ]_vars

\* C29 witness: the only call made so far was aborted by its onWarning or
\* onCritical: the write is counted, the callback was invoked, the recorded
\* status is still ok and no overflow test was made.
C29_Witness ==
    /\ mstarted = 1 /\ epoch = 0
    /\ \A p \in MonSlots : mcall[p].pc = "idle"
    /\ lastEval.callback # "none"
    /\ fired[lastEval.callback] = 1
    /\ state.bytesWritten > 0
    /\ lastStatus = "ok" /\ StatusOf(state.bytesWritten) # "ok"
    /\ ~lastOv.tested

\* a tracked write of the epoch moves the usage ratio from below
\* warningThreshold to at or above criticalThreshold in this step
SkipsWarning ==
    /\ epoch' = epoch
    /\ StatusOf(state.bytesWritten) = "ok"
    /\ StatusOf(state'.bytesWritten) = "critical"

\* C30 (as claimed): threshold skipping. A single tracked write that moves
\* the usage ratio from below warningThreshold to at or above
\* criticalThreshold is classified critical, invokes onCritical once (when
\* one is configured) and not onWarning, and no write of the same epoch that
\* finds the usage in the critical band invokes onWarning.
C30_ThresholdSkipping ==
    [][/\ SkipsWarning =>
            /\ lastEval'.currentStatus = "critical"
            /\ getStats'.status = "critical"
            /\ fired'["onWarning"] = fired["onWarning"]
            /\ "onCritical" \in mcfg.callbacks =>
                  /\ lastEval'.callback = "onCritical"
                  /\ fired'["onCritical"] = fired["onCritical"] + 1
            /\ "onCritical" \notin mcfg.callbacks => lastStatus' = "critical"
       /\ (epoch' = epoch /\ StatusOf(state.bytesWritten) = "critical")
             => fired'["onWarning"] = fired["onWarning"]
      ]_vars

\* C30, the part about onWarning: the write that skips the warning band does
\* not invoke onWarning, and nothing invokes it later in the same epoch, in
\* every interleaving and with throwing callbacks.
C30_WarningIsSkipped ==
    [][/\ SkipsWarning =>
            /\ lastEval'.currentStatus = "critical"
            /\ lastEval'.callback # "onWarning"
            /\ fired'["onWarning"] = fired["onWarning"]
       /\ (epoch' = epoch /\ StatusOf(state.bytesWritten) = "critical")
             => fired'["onWarning"] = fired["onWarning"]
      ]_vars

\* C30, the part about onCritical where the recorded status agrees with the
\* usage: a skipping write made while the recorded status is ok invokes
\* onCritical once.
C30_CriticalFiresFromOk ==
    [][(SkipsWarning /\ lastStatus = "ok" /\ "onCritical" \in mcfg.callbacks)
          => /\ lastEval'.callback = "onCritical"
             /\ fired'["onCritical"] = fired["onCritical"] + 1
      ]_vars

\* C30: a write skipped the warning band after a reset() and invoked no
\* callback, although onCritical is configured and has not been invoked
\* since the reset().
C30_SkippedUnnoticed ==
    /\ lastEval.epoch > 0 /\ epoch = lastEval.epoch
    /\ lastEval.currentStatus = "critical"
    /\ lastEval.callback = "none"
    /\ "onCritical" \in mcfg.callbacks
    /\ fired["onCritical"] = 0 /\ fired["onWarning"] = 0
    /\ state.bytesWritten = 120

\* the records of the queue
QueuedRecords == { pendingQueue[i].record : i \in 1..Len(pendingQueue) }

\* the records in the POST bodies in flight
PostedRecords ==
    UNION { { scall[c].batch[i] : i \in 1..Len(scall[c].batch) } :
            c \in { d \in SyncSlots : scall[d].pc = "pushFetch" } }

\* the records in the last beacon
BeaconRecords == { beacon.items[i] : i \in 1..Len(beacon.items) }

\* every copy of a record the manager holds or has sent
RecordCopies == QueuedRecords \cup PostedRecords \cup BeaconRecords \cup serverStore

\* C31: a queued record is immutable. queueChange() fixes id, data, clientId,
\* updatedAt (the clock at that moment) and syncId; no step changes an entry
\* that stays in the queue; every POST body and every beacon carries the
\* queued records as they are; so all copies of a record (queued, in a POST
\* in flight, in the last beacon, accepted by the server) are identical and
\* none is stamped later than it was queued.
C31_QueuedRecordImmutable ==
    /\ [](\A r1, r2 \in RecordCopies : r1.syncId = r2.syncId => r1 = r2)
    /\ [][/\ \* queueChange() stamps the record with the time of the mutation
             Len(pendingQueue') > Len(pendingQueue) =>
                /\ Len(pendingQueue') = Len(pendingQueue) + 1
                /\ SubSeq(pendingQueue', 1, Len(pendingQueue)) = pendingQueue
                /\ LET r == pendingQueue'[Len(pendingQueue')].record IN
                   /\ r.updatedAt = now /\ r.syncId = nextSyncId /\ r.clientId = clientId
                   /\ r.id = 1 /\ r.syncId \notin { q.syncId : q \in RecordCopies }
          /\ \* an entry that stays in the queue stays as it is
             \A i \in 1..Len(pendingQueue') :
                Len(pendingQueue') <= Len(pendingQueue) =>
                    \E j \in 1..Len(pendingQueue) : pendingQueue'[i] = pendingQueue[j]
          /\ \* a POST carries the queued records of its table, as they are
             \A c \in SyncSlots :
                (scall[c].pc # "pushFetch" /\ scall'[c].pc = "pushFetch") =>
                    scall'[c].batch = RecordsOf(pendingForTable(pendingQueue, scall'[c].table))
          /\ \* and so does the beacon
             beacon' # beacon =>
                beacon'.items = RecordsOf(pendingForTable(pendingQueue, beacon'.table))
      ]_vars

\* C31 witness: a record queued at time 1 was sent in a push that failed, the
\* clock advanced, and the record is now both in the POST of the retry and in
\* an unload beacon, still stamped 1.
C31_Witness ==
    /\ now = 2
    /\ \E c, d \in SyncSlots :
         /\ scall[c].pc = "done" /\ scall[d].pc = "pushFetch"
         /\ Len(scall[d].batch) > 0
         /\ scall[d].batch[1].updatedAt = 1
         /\ Len(beacon.items) > 0
         /\ beacon.items[1] = scall[d].batch[1]
         /\ pendingQueue[1].record = scall[d].batch[1]
    /\ acked = {}

\* the records queued for a table other than t
RecordsOfOtherTables(t) ==
    { pendingQueue[i].record : i \in { j \in 1..Len(pendingQueue) : pendingQueue[j].tableName # t } }

RunAnswered ==
    \/ \E p \in MonSlots : mcall[p].pc = "awaitDb" /\ mcall'[p].pc # "awaitDb"
    \/ mstarted' > mstarted /\ lastRun'.outcome # "none"

\* the counters after a step are the counters before it plus one write of
\* `bytes` bytes and `rows` rows: nothing written meanwhile is dropped
Adds(bytes, rows) ==
    /\ state'.bytesWritten = state.bytesWritten + bytes
    /\ state'.rowCount = state.rowCount + rows

\* every step of an epoch adds to the counters what `counted` says it
\* should: an answered run() whose <<query, outcome>> is in `counted` adds
\* its write size and its rows, trackBytes(n) adds n, anything else nothing
EveryWriteAdds(counted) ==
    epoch' = epoch =>
        /\ RunAnswered =>
              IF <<lastRun'.query, lastRun'.outcome>> \in counted
              THEN \E ps \in ParamSizes, result \in DbResults :
                      /\ Outcome(result) = lastRun'.outcome
                      /\ Adds(estimateDataSize(lastRun'.query.jsonSize) + estimateDataSize(ps),
                              RowsAdded(result))
              ELSE Adds(0, 0)
        /\ \A p \in MonSlots, n \in TrackInputs : TrackBytes(p, n) => Adds(n, 0)
        /\ (~RunAnswered /\ mstarted' = mstarted) => Adds(0, 0)

\* how a run() call may end
Outcomes == { Outcome(result) : result \in DbResults }

\* the mutating run() calls whose backend call succeeded, as <<query, outcome>>
MutationSucceeded ==
    { x \in Queries \X Outcomes : DenotesMutation(x[1]) /\ x[2] = "returned" }

\* the run() calls that pass line 128 after db.run returned, as <<query, outcome>>
PassesTrackingTest ==
    { x \in Queries \X Outcomes : IsMutation(x[1]) /\ x[2] # "threw" }

\* C33 (as claimed): no tracked write is lost under interleaving. With no
\* reset(), every step adds to the counters exactly the write it stands
\* for, on top of whatever the overlapping calls have added: a mutating run()
\* whose backend call succeeded adds estimateSize(query) + estimateSize(params)
\* and its row count (1 without rows), trackBytes(n) adds n, and nothing else
\* changes the counters; so once all calls have settled the counters are the
\* sums over those calls.
C33_NoTrackedWriteLost == [][EveryWriteAdds(MutationSucceeded)]_vars

\* C33, for the run() calls line 128 counts: the counters are the sums over
\* the run() calls whose text contains ':put' or ':create' and whose db.run
\* returned, and over the trackBytes calls, in every interleaving.
C33_NoCountedWriteLost == [][EveryWriteAdds(PassesTrackingTest)]_vars

\* C33: two overlapping calls have both settled and both writes are in the
\* counters.
C33_BothWritesCounted ==
    /\ epoch = 0 /\ mstarted = 2
    /\ \A p \in MonSlots : mcall[p].pc = "idle"
    /\ lastRun.outcome = "returned" /\ lastRun.added > 0
    /\ state.bytesWritten > lastRun.added
    /\ state.rowCount >= 1

\* no run()/trackBytes() call is in flight
NoCallInFlight == \A p \in MonSlots : mcall[p].pc = "idle"

\* C34 (as claimed): whenever no run()/trackBytes() call is in flight, the
\* last-observed status of the monitor is the classification of the current
\* bytesWritten, the status getStats() reports.
C34_RecordedStatusIsCurrent ==
    NoCallInFlight => lastStatus = getStats.status

\* C34: reset() was called while the only call made was suspended in its
\* onWarning or onCritical; the callback returned, the call has settled, the
\* counters are zero and the recorded status is not ok.
C34_StaleAfterReset ==
    /\ NoCallInFlight
    /\ mstarted = 1 /\ epoch = 1
    /\ lastOv.tested /\ lastOv.viaAwait
    /\ getStats.bytesWritten = 0 /\ getStats.status = "ok"
    /\ lastStatus # "ok"

\* C35 (as claimed): lastSyncTime never decreases: against a server whose
\* reported serverTime is non-decreasing, after any interleaving of sync()
\* and direct pull() calls, getStatus().lastSyncTime is never smaller than a
\* value it had earlier.
C35_WatermarkNeverDecreases ==
    [][getStatus'.lastSyncTime >= getStatus.lastSyncTime]_vars

\* C35: every watermark the manager sets is a serverTime the server has
\* reported, so it never runs ahead of the server's clock.
C35_WatermarkIsReportedTime ==
    lastSyncTime = 0 \/ (lastSyncTime >= 5 /\ lastSyncTime <= serverClock)

\* C35: the watermark is behind the serverTime of a response the manager has
\* already completed a pull with.
C35_WatermarkWentBack ==
    /\ \A c \in SyncSlots : scall[c].pc = "done"
    /\ lastSyncTime # 0
    /\ lastSyncTime < serverClock
    /\ ev.phase = "pull" /\ ev.result = "resolved" /\ ev.apply.done

\* the call in slot c takes one round of pull's loop in this step
LoopRound(c) == scall[c].pc = "pullItems" /\ scall'[c] # scall[c]

\* C36: when the conflict hook returns 'skip' for a fetched record, the
\* record is not applied (the local store keeps what it held) and is not
\* counted; the loop goes on with the remaining records; after the last
\* record the pull resolves with the count of the records applied and
\* lastSyncTime is set to the server time of the response (the local clock
\* when the response has none); and the next request sends that watermark as
\* `since`.
C36_SkipLeavesRecord ==
    /\ [][\A c \in SyncSlots :
            (LoopRound(c) /\ ev'.apply.hook = "skip") =>
               /\ ev'.apply.conflict /\ ev'.apply.outcome = "skipped"
               /\ "onSyncError" \notin ev'.hooks
               /\ localDb' = localDb
               /\ IF Len(scall[c].items) > 1
                  THEN /\ scall'[c].pc = "pullItems"
                       /\ scall'[c].items = Tail(scall[c].items)
                       /\ scall'[c].applied = scall[c].applied
                       /\ lastSyncTime' = lastSyncTime
                  ELSE /\ scall'[c].pc = "done"
                       /\ ev'.result = "resolved"
                       /\ ev'.count = scall[c].applied
                       /\ lastSyncTime' = IF scall[c].serverTime # 0
                                           THEN scall[c].serverTime ELSE now
         ]_vars
    /\ [][ev'.req = "GET" => ev'.count = lastSyncTime]_vars

\* C36 witness: a pull of two records has ended: the first was applied, the
\* second was skipped by the hook; the pull resolved with a total of 1, the
\* local copy is the one the first record wrote, and lastSyncTime is the
\* server time.
C36_Witness ==
    /\ ev.phase = "pull" /\ ev.result = "resolved"
    /\ ev.apply.done /\ ev.apply.hook = "skip" /\ ev.apply.outcome = "skipped"
    /\ ev.count = 1
    /\ localDb["notes"][1] = ev.apply.local
    /\ localDb["notes"][1].title = "R"
    /\ lastSyncTime = 5

\* the table of the sync() cycle in progress
CycleTables == { scall[c].table : c \in SyncInFlight }

\* C37: the single-flight guard is scoped to the manager, not to the table.
\* While sync(A) is in flight, sync(B) is rejected for every table B, A # B
\* included: it returns {skipped: true}, starts no cycle, sends nothing and
\* leaves the queue, B's entries included, as it is.  A cycle starts only
\* while the manager is idle, and the entries of a table leave the queue
\* only when the POST of a cycle for that table is answered.
C37_GuardIsPerManager ==
    /\ [](\A A \in CycleTables, B \in Tables :
             /\ ENABLED SyncSkipped(B)
             /\ \A c \in SyncSlots : ~ENABLED SyncCall(c, B))
    /\ [][\A B \in Tables :
            SyncSkipped(B) =>
               /\ ev'.result = "skipped" /\ ev'.req = "none" /\ ev'.hooks = {}
               /\ UNCHANGED <<pendingQueue, scall, isSyncing, acked, serverStore, lastSyncTime>>
         ]_vars
    /\ [][\A c \in SyncSlots :
            (scall[c].op # "sync" /\ scall'[c].op = "sync") =>
                ~isSyncing /\ SyncInFlight = {}
         ]_vars
    /\ [][\A B \in Tables :
            pendingForTable(pendingQueue', B) # pendingForTable(pendingQueue, B) =>
               \/ Len(pendingForTable(pendingQueue', B)) = Len(pendingForTable(pendingQueue, B)) + 1
               \/ \E c \in SyncInFlight :
                     /\ scall[c].table = B /\ scall[c].pc = "pushFetch"
                     /\ scall'[c].pc # "pushFetch"
         ]_vars

\* C37 witness: while the cycle of sync(notes) waits for the server, a
\* sync(tasks) has been rejected; the entry queued for tasks is still in the
\* queue and has not been sent.
C37_Witness ==
    /\ ev.op = "sync" /\ ev.result = "skipped" /\ ev.apply.table = "tasks"
    /\ CycleTables = {"notes"}
    /\ \E i \in 1..Len(pendingQueue) :
          /\ pendingQueue[i].tableName = "tasks"
          /\ pendingQueue[i].record.syncId \notin acked
          /\ pendingQueue[i].record \notin PostedRecords

\* C38: when the local-store query of getLocalRecord raises for a fetched
\* record, the failure is swallowed and the record is treated as having no
\* local copy: no timestamp comparison finds a conflict, the conflict hook
\* is not invoked, no strategy is applied, and the remote record itself is
\* written, over whatever the store holds; the read error does not make the
\* pull fail (only a failing write does).
C38_ReadFailureAppliesRemote ==
    [][\A c \in SyncSlots, mf \in BOOLEAN :
          PullItem(c, TRUE, "proceed", mf) =>
             LET item == Head(scall[c].items) IN
             /\ ev'.apply.done /\ ev'.apply.item = item
             /\ ev'.apply.local = NoRow
             /\ ~ev'.apply.conflict /\ ev'.apply.hook = "none"
             /\ "onConflict" \notin ev'.hooks
             /\ ev'.apply.resolved = NoRow
             /\ IF mf
                THEN ev'.apply.outcome = "mutateFailed"
                ELSE /\ ev'.apply.outcome = "written"
                     /\ localDb'[scall[c].table][item.id] = applyToLocal(item).row
                     /\ "onSyncError" \notin ev'.hooks
                     /\ ev'.result # "rejected"
                     /\ ev'.count = scall[c].applied + 1
      ]_vars

\* C38 witness: the store held a row newer than the fetched record, the read
\* failed, and the fetched record was written over the row without the hook.
C38_Witness ==
    /\ ev.apply.done
    /\ ev.apply.dbAtCall # <<>>
    /\ ev.apply.dbAtCall["notes"][1] = Row(1, "L", 2)
    /\ ev.apply.item.updatedAt = 1
    /\ ev.apply.local = NoRow /\ ~ev.apply.conflict
    /\ ev.hooks \cap {"onConflict", "onSyncError"} = {}
    /\ ev.apply.outcome = "written"
    /\ localDb["notes"][1] = Row(1, "R", 1)

\* C39 (as claimed): after the cleanup function returned by setupAutoSync
\* has been called, no trigger makes a further sync() call or a further
\* unload transmission: neither the timer, nor the loss of focus, nor the
\* unload of the page.
C39_CleanupStopsAutoSync ==
    [][auto.cleaned =>
          /\ \A c \in SyncSlots : ~TimerFires(c) /\ ~BlurFires(c)
          /\ ~BeforeUnload
      ]_vars

\* C39, the periodic trigger: after the cleanup the timer makes no sync() call.
C39_CleanupStopsTimer ==
    /\ [](auto.cleaned => ~auto.interval)
    /\ [][auto.cleaned => \A c \in SyncSlots : ~TimerFires(c)]_vars

\* C39: after the cleanup, a loss of focus has started a sync() cycle that
\* has sent the queued record of the table.
C39_BlurAfterCleanup ==
    /\ auto.cleaned /\ auto.blur
    /\ ev.op = "sync" /\ ev.req = "POST" /\ "onSyncStart" \in ev.hooks
    /\ \E c \in SyncSlots : scall[c].pc = "pushFetch" /\ scall[c].table = auto.table

\* C39: after the cleanup, the unload of the page has sent a beacon with
\* the queued record of the table.
C39_BeaconAfterCleanup ==
    /\ auto.cleaned /\ auto.unload
    /\ ev.op = "unload" /\ ev.req = "BEACON"
    /\ beacon.table = auto.table /\ Len(beacon.items) > 0

====
